---- MODULE Spec2Model ----
(***************************************************************************)
(* Model of the cosa document-modelling layer: immutable model instances   *)
(* with change tracking, the save/remove lifecycle with etag-based         *)
(* optimistic concurrency, and the session coordinator that sequences the  *)
(* deferred afterCommit / afterAbort continuations.                        *)
(***************************************************************************)
EXTENDS Integers, Sequences, FiniteSets, TLC

\* ---------------------------------------------------------------- bounds
\* save()/remove() invocations in one run without a session
MaxCalls == 2
\* save()/remove() invocations in one run inside a transaction
MaxTxCalls == 4
\* save()/reload() invocations in one run of conflict, reload and retry
MaxRetryCalls == 4
MaxIds == 3
MaxVal == 1
\* most paths a caller lets accumulate in __modified
MaxMods == 1
\* most entries of __modified when the caller sets and deletes dotted paths
MaxPaths == 3

MaxOf(S) == CHOOSE n \in S : \A m \in S : m <= n
CallIds == 1..MaxOf({MaxCalls, MaxTxCalls, MaxRetryCalls})
\* the caller's variables
Slots == {1, 2}
Ids == 1..MaxIds
\* values of the required string property `str`; NoStr is "property absent"
NoStr == 0
Vals == 0..MaxVal
NoEtag == 0

\* ------------------------------------------------------- model definitions
\* Six definitions a caller passes to Model.define().  A: all before and
\* after hooks, its afterSave / afterRemove saves / removes a ModelB document
\* with the options it was given; B: all after hooks, waitAfterSave and
\* waitAfterRemove true; C: before and after hooks, no Commit / Abort hooks,
\* waitAfterSave and waitAfterRemove false; W: no hooks, `str` not required, a
\* global where {str: 1}; U: beforeSave, afterSave and
\* transformDuplicateKeyError, `str` not required, its collection has a unique
\* index on `str`; V: as U without transformDuplicateKeyError.
Defs == {"A", "B", "C", "W", "U", "V"}

Methods(d) ==
  CASE d = "A" -> {"beforeSave", "afterSave", "afterSaveCommit", "afterSaveAbort",
                   "beforeRemove", "afterRemove", "afterRemoveCommit",
                   "afterRemoveAbort"}
    [] d = "B" -> {"afterSave", "afterSaveCommit", "afterSaveAbort",
                   "afterRemove", "afterRemoveCommit", "afterRemoveAbort"}
    [] d = "W" -> {}
    [] d = "U" -> {"beforeSave", "afterSave", "transformDuplicateKeyError"}
    [] d = "V" -> {"beforeSave", "afterSave"}
    [] OTHER   -> {"beforeSave", "afterSave", "beforeRemove", "afterRemove"}

\* definition.waitAfterSave / definition.waitAfterRemove ("absent": key not set)
DefWait(d) ==
  CASE d \in {"A", "W"} -> "absent" [] d = "B" -> "true" [] OTHER -> "false"

\* definition.where as the value it demands of `str` (NoStr: no where)
Where(d) == IF d = "W" THEN 1 ELSE 0

\* properties.str.required
Required(d) == d \notin {"W", "U", "V", "D"}

\* properties.str.default (NoStr: none); D: a definition like ModelC whose
\* `str` is not required and has a default
Default(d) == IF d = "D" THEN 1 ELSE NoStr

\* createIndex({str: 1}, {unique: true}) on the collection
UniqueStr(d) == d \in {"U", "V"}

\* the hooks whose body performs a further save/remove of a ModelB document
Nested(d, hook) == d = "A" /\ hook \in {"afterSave", "afterRemove"}

\* the paths a caller sets and deletes, a path being the sequence of its
\* dot-separated segments: 'str', 'obj', 'obj.deep', 'obj.deep.blah', 'obj.n'
Paths ==
  {<<"str">>, <<"obj">>, <<"obj", "deep">>, <<"obj", "deep", "blah">>, <<"obj", "n">>}

\* values a caller may give options.waitAfterSave / options.waitAfterRemove
OptWaits == {"absent", "undefined", "false", "true"}

\* ------------------------------------------------------------ plain values
NoDoc == [_id |-> 0, _etag |-> NoEtag, str |-> NoStr, coll |-> "none"]

NoErr == [type |-> "none", src |-> 0]
Err(t, c) == [type |-> t, src |-> c]
\* errors.Conflict / errors.Validation status codes
StatusCode(e) ==
  CASE e.type = "Conflict" -> 409
    [] e.type = "Validation" -> 400
    [] OTHER -> 0
\* JavaScript truthiness of a thrown value: every Error object is truthy
Truthy(e) == e.type # "none"

\* the backing plain value of an instance (what toObject() returns)
Plain(id, et, s, mod, orig) ==
  [_id |-> id, _etag |-> et, str |-> s, __modified |-> mod, __original |-> orig]

\* a property that is undefined takes the definition's default
Defaulted(data, d) ==
  IF data.str = NoStr /\ Default(d) # NoStr THEN [data EXCEPT !.str = Default(d)]
  ELSE data

\* Immutable.create(data, {definition}): the defaults are written into data,
\* the accessors capture the property values at construction; toObject()
\* hands out the live backing value `data`.
Create(d, data) ==
  LET filled == Defaulted(data, d)
  IN [def |-> d, _id |-> filled._id, _etag |-> filled._etag, str |-> filled.str,
      __modified |-> filled.__modified, __original |-> filled.__original,
      data |-> filled]

NoInst == [def |-> "none", _id |-> 0, _etag |-> NoEtag, str |-> NoStr,
           __modified |-> <<>>, __original |-> <<>>,
           data |-> Plain(0, NoEtag, NoStr, <<>>, <<>>)]

isNew(x) == x._id = 0
isModified(x) == Len(x.__modified) > 0

\* prefix test on dot paths, a path being the sequence of its segments:
\* value.indexOf(`${path}.`, 0) === 0
StartsWithDot(value, path) ==
  /\ Len(value) > Len(path)
  /\ SubSeq(value, 1, Len(path)) = path

RECURSIVE FilterNotUnder(_, _)
FilterNotUnder(mods, path) ==
  IF mods = <<>> THEN <<>>
  ELSE IF StartsWithDot(Head(mods), path) THEN FilterNotUnder(Tail(mods), path)
       ELSE <<Head(mods)>> \o FilterNotUnder(Tail(mods), path)

\* the test of isModified's loop taken for equality only
ModifiedByExact(value, path) == value = path

\* the test of isModified's loop:
\* value === path || value.indexOf(`${path}.`, 0) === 0
ModifiedBy(value, path) == value = path \/ StartsWithDot(value, path)

\* a loop that returns after its first iteration
isModifiedPathFirst(x, path) ==
  Len(x.__modified) > 0 /\ ModifiedBy(x.__modified[1], path)

\* x.isModified(path)
isModifiedPath(x, path) ==
  \E i \in 1..Len(x.__modified) : ModifiedBy(x.__modified[i], path)

\* one iteration of paths.forEach in _markAsModified
MarkPath(mods, path) ==
  LET shouldAdd == \A i \in 1..Len(mods) : ~StartsWithDot(path, mods[i])
      kept == FilterNotUnder(mods, path)
  IN IF shouldAdd THEN Append(kept, path) ELSE kept

\* __original taken from the instance being changed, whatever it carries
MarkAsModifiedNoCollapse(obj, path, original) ==
  LET marked == [obj EXCEPT !.__modified = MarkPath(obj.__modified, path)]
  IN IF obj._id # 0 THEN [marked EXCEPT !.__original = <<original.data>>]
     ELSE marked

\* _markAsModified(obj, [path], original): obj is the clone being mutated
MarkAsModified(obj, path, original) ==
  LET marked == [obj EXCEPT !.__modified = MarkPath(obj.__modified, path)]
      snap == original.data
  IN IF obj._id # 0
       THEN [marked EXCEPT !.__original =
               IF snap.__original # <<>> THEN snap.__original ELSE <<snap>>]
       ELSE marked

\* x.set('str', v): mutate() clones the backing value, applies the change and
\* wraps the clone as a new instance
Set(x, v) ==
  Create(x.def, MarkAsModified([x.data EXCEPT !.str = v], <<"str">>, x))

\* x.del('str')
Del(x) ==
  Create(x.def, MarkAsModified([x.data EXCEPT !.str = NoStr], <<"str">>, x))

\* x.set(p, v) for any of the paths; of the values only that of `str` is
\* tracked
SetPath(x, p, v) ==
  Create(x.def, MarkAsModified(IF p = <<"str">> THEN [x.data EXCEPT !.str = v]
                               ELSE x.data, p, x))

\* x.del(p)
DelPath(x, p) ==
  Create(x.def, MarkAsModified(IF p = <<"str">> THEN [x.data EXCEPT !.str = NoStr]
                               ELSE x.data, p, x))

\* the change tracking is reset and the _etag left as it was
SetSavedKeepsEtag(x, newEtag) ==
  Create(x.def, [x.data EXCEPT !.__modified = <<>>, !.__original = <<>>])

\* x.set({_etag}, {silent: true}): the change tracking is left as it was
SetSavedEtagOnly(x, newEtag) ==
  Create(x.def, [x.data EXCEPT !._etag = newEtag])

\* x.set({_etag, __modified: [], __original: null}, {silent: true})
SetSaved(x, newEtag) ==
  Create(x.def, [x.data EXCEPT !._etag = newEtag, !.__modified = <<>>,
                               !.__original = <<>>])

\* removeMeta(obj) followed by the fields a stored document has
Outgoing(obj, d) == [_id |-> obj._id, _etag |-> obj._etag, str |-> obj.str, coll |-> d]

\* a hash of the outgoing document without its _etag
EtagOfContent(obj) == 1 + obj._id + (MaxIds + 1) * obj.str

\* etag(JSON.stringify(obj)): an injective content hash of the outgoing
\* document as it is when hashed (it still carries the previous _etag)
Etag(obj) == 1 + obj._id + (MaxIds + 1) * (obj.str + (MaxVal + 1) * obj._etag)

\* a schema that accepts every value
ValidAlways(obj) == TRUE

\* definition._schema.validateAsync(obj): `str` is required
Valid(obj) == obj.str # NoStr

\* options[waitType] || definition[waitType]
shouldWaitOr(optWait, d) == optWait = "true" \/ DefWait(d) = "true"

\* shouldWait(waitType)(options, definition)
shouldWait(optWait, d) ==
  IF optWait # "absent" THEN optWait = "true" ELSE DefWait(d) = "true"

\* _create(doc, definition) for a stored document
FromDoc(doc) == Create(doc.coll, Plain(doc._id, doc._etag, doc.str, <<>>, <<>>))

\* ------------------------------------------------------------------ state
VARIABLES
  store,         \* committed documents, by _id
  txStore,       \* the documents as seen inside the open transaction
  txn,           \* native session: "none", "active", "committed", "aborted", "failed"
  afterCommits,  \* session.afterCommits: queued continuations
  afterAborts,   \* session.afterAborts: queued continuations
  sess,          \* the running commitTransaction()/abortTransaction() call
  hookLog,       \* every hook invocation and native commit/abort, in order
  inst,          \* the instances the caller holds
  calls,         \* save()/remove() invocations
  nextCall,      \* next free call record
  nextId,        \* next _id the driver generates on insert
  lastWriter     \* per _id, the call that last changed the document

\* the Immutable, query and cursor layers exercised on their own
VARIABLES
  arg,           \* the objects and arguments the calls under study work on
  res            \* what those calls returned, in call order

modelVars == <<store, txStore, txn, afterCommits, afterAborts, sess, hookLog,
               inst, calls, nextCall, nextId, lastWriter>>
libVars == <<arg, res>>
vars == <<modelVars, libVars>>

\* no call on those layers
LibIdle == arg = <<>> /\ res = <<>>

FreeCall ==
  [op |-> "none", pc |-> "free", status |-> "free", def |-> "none",
   slot |-> 0, own |-> NoInst, parent |-> 0, child |-> 0,
   sess |-> FALSE, optWait |-> "absent",
   query |-> NoDoc, obj |-> NoDoc, insert |-> FALSE,
   model |-> NoInst, err |-> NoErr, chainErr |-> NoErr,
   seen |-> FALSE, ctx0 |-> NoInst, wrote |-> FALSE, wlast |-> 0, ran |-> {},
   deleted |-> 0, bthrew |-> FALSE, explicitId |-> 0, recvId |-> 0,
   raw |-> NoErr, tArg |-> NoErr, tRecv |-> NoDoc]

\* value: the errors the call resolved with (this code resolves with
\* undefined); invoked, thrown: the continuations run and the errors they threw
IdleSess ==
  [op |-> "none", status |-> "idle", idx |-> 1, error |-> NoErr,
   value |-> <<>>, invoked |-> <<>>, thrown |-> <<>>]

\* the document ModelC.create({str: 1}).save() leaves in an empty collection
FirstDoc ==
  LET obj == Outgoing(Plain(0, NoEtag, 1, <<>>, <<>>), "C")
  IN [obj EXCEPT !._id = 1, !._etag = Etag(obj)]

\* a collection holding one ModelC document saved earlier, no session
Init ==
  /\ store = [i \in Ids |-> IF i = 1 THEN FirstDoc ELSE NoDoc]
  /\ txStore = [i \in Ids |-> NoDoc]
  /\ txn = "none"
  /\ afterCommits = <<>>
  /\ afterAborts = <<>>
  /\ sess = IdleSess
  /\ hookLog = <<>>
  /\ inst = [s \in Slots |-> NoInst]
  /\ calls = [c \in CallIds |-> FreeCall]
  /\ nextCall = 1
  /\ nextId = 2
  /\ lastWriter = [i \in Ids |-> 0]
  /\ LibIdle

\* the documents an operation sees: options.session routes it into the
\* transaction
View(s) == IF s THEN txStore ELSE store

\* the instance a call was invoked on (`context` / `this`)
Ctx(c) == IF calls[c].slot = 0 THEN calls[c].own ELSE inst[calls[c].slot]

\* the caller is awaiting a save(), remove(), commitTransaction() or
\* abortTransaction()
TopPending ==
  \/ \E c \in CallIds : calls[c].parent = 0 /\ calls[c].op # "none" /\ ~calls[c].seen
  \/ sess.status = "running"

\* what is kept of a call once it has settled, its caller has seen the outcome
\* and its hooks have run
Summary(r) ==
  [FreeCall EXCEPT !.op = r.op, !.def = r.def, !.sess = r.sess, !.parent = r.parent,
     !.status = r.status, !.pc = "done", !.seen = TRUE, !.err = r.err,
     !.wrote = r.wrote, !.obj = r.obj, !.explicitId = r.explicitId,
     !.wlast = IF r.op = "reload" THEN r.wlast ELSE 0,
     !.ctx0 = [NoInst EXCEPT !._id = r.ctx0._id, !._etag = r.ctx0._etag]]
Fin(r) == IF r.pc = "done" /\ r.seen THEN Summary(r) ELSE r

Logged(h, c) == [hook |-> h, call |-> c]
Cont(h, c) == [hook |-> h, call |-> c]

HookOf(op, kind) ==
  CASE op = "save" /\ kind = "after" -> "afterSave"
    [] op = "save" /\ kind = "commit" -> "afterSaveCommit"
    [] op = "save" /\ kind = "abort" -> "afterSaveAbort"
    [] op = "remove" /\ kind = "after" -> "afterRemove"
    [] op = "remove" /\ kind = "commit" -> "afterRemoveCommit"
    [] OTHER -> "afterRemoveAbort"

\* ---------------------------------------------------------- caller actions
\* Model.create({str: v})
NewInstance(s, d, v) ==
  /\ ~TopPending
  /\ inst' = [inst EXCEPT ![s] = Create(d, Plain(0, NoEtag, v, <<>>, <<>>))]
  /\ inst'[s] # inst[s]
  /\ UNCHANGED <<store, txStore, txn, afterCommits, afterAborts, sess, hookLog,
                 calls, nextCall, nextId, lastWriter>>
  /\ UNCHANGED libVars

\* the query with definition.where merged under it
makeSafeQuery(q) ==
  IF Where(q.coll) = 0 \/ q.str # NoStr THEN q ELSE [q EXCEPT !.str = Where(q.coll)]

\* db.find(collection, q, {findOne: true}) finds a document; a field of q
\* that is absent (0) is not part of the filter
Finds(docs, q) ==
  /\ q._id \in Ids
  /\ docs[q._id]._id = q._id
  /\ docs[q._id].coll = q.coll
  /\ q._etag # NoEtag => docs[q._id]._etag = q._etag
  /\ q.str # NoStr => docs[q._id].str = q.str

\* Model.findOne({_id: i}, {session})
FindOne(s, i) ==
  /\ ~TopPending
  /\ View(txn = "active")[i] # NoDoc
  /\ Finds(View(txn = "active"),
           makeSafeQuery([_id |-> i, _etag |-> NoEtag, str |-> NoStr,
                          coll |-> View(txn = "active")[i].coll]))
  /\ inst' = [inst EXCEPT ![s] = FromDoc(View(txn = "active")[i])]
  /\ inst'[s] # inst[s]
  /\ UNCHANGED <<store, txStore, txn, afterCommits, afterAborts, sess, hookLog,
                 calls, nextCall, nextId, lastWriter>>
  /\ UNCHANGED libVars

\* x = x.set('str', v)
SetStr(s, v) ==
  /\ ~TopPending
  /\ inst[s] # NoInst
  /\ v # NoStr
  /\ Len(inst[s].__modified) < MaxMods
  /\ inst' = [inst EXCEPT ![s] = Set(inst[s], v)]
  /\ inst'[s] # inst[s]
  /\ UNCHANGED <<store, txStore, txn, afterCommits, afterAborts, sess, hookLog,
                 calls, nextCall, nextId, lastWriter>>
  /\ UNCHANGED libVars

\* x = x.del('str')
DelStr(s) ==
  /\ ~TopPending
  /\ inst[s] # NoInst
  /\ Len(inst[s].__modified) < MaxMods
  /\ inst' = [inst EXCEPT ![s] = Del(inst[s])]
  /\ inst'[s] # inst[s]
  /\ UNCHANGED <<store, txStore, txn, afterCommits, afterAborts, sess, hookLog,
                 calls, nextCall, nextId, lastWriter>>
  /\ UNCHANGED libVars

\* x = x.set(p, v)
SetAt(s, p, v) ==
  /\ ~TopPending
  /\ inst[s] # NoInst
  /\ Len(inst[s].__modified) < MaxPaths
  /\ inst' = [inst EXCEPT ![s] = SetPath(inst[s], p, v)]
  /\ inst'[s] # inst[s]
  /\ UNCHANGED <<store, txStore, txn, afterCommits, afterAborts, sess, hookLog,
                 calls, nextCall, nextId, lastWriter>>
  /\ UNCHANGED libVars

\* x = x.del(p)
DelAt(s, p) ==
  /\ ~TopPending
  /\ inst[s] # NoInst
  /\ Len(inst[s].__modified) < MaxPaths
  /\ inst' = [inst EXCEPT ![s] = DelPath(inst[s], p)]
  /\ inst'[s] # inst[s]
  /\ UNCHANGED <<store, txStore, txn, afterCommits, afterAborts, sess, hookLog,
                 calls, nextCall, nextId, lastWriter>>
  /\ UNCHANGED libVars

\* ------------------------------------------------------------------- save
\* a _saveHelper without the early return
ShortCircuitNever(x) == FALSE

\* _saveHelper: `if (!context.isNew() && !context.isModified()) return context`
ShortCircuit(x) == ~isNew(x) /\ ~isModified(x)

\* a call that goes past its before hook
FirstStepSkipsBefore(op, d) == IF op = "save" THEN "validate" ELSE "write"

\* the first await of a call: its before hook when the definition has one,
\* otherwise validation (save) or the delete (remove)
FirstStep(op, d) ==
  IF op = "save"
    THEN IF "beforeSave" \in Methods(d) THEN "before" ELSE "validate"
    ELSE IF "beforeRemove" \in Methods(d) THEN "before" ELSE "write"

\* _saveHelper up to its first await
SaveEnter(x, slot, parent, sflag, ow) ==
  LET base == [FreeCall EXCEPT !.op = "save", !.def = x.def, !.slot = slot,
                 !.own = IF slot = 0 THEN x ELSE NoInst, !.parent = parent,
                 !.sess = sflag, !.optWait = ow, !.ctx0 = x]
  IN IF ShortCircuit(x)
       THEN [base EXCEPT !.pc = "done", !.status = "resolved", !.model = x]
       ELSE [base EXCEPT !.status = "pending",
               !.pc = FirstStep("save", x.def)]

\* remove() up to its first await
RemoveEnter(x, slot, parent, sflag, ow) ==
  [FreeCall EXCEPT !.op = "remove", !.def = x.def, !.slot = slot,
     !.own = IF slot = 0 THEN x ELSE NoInst, !.parent = parent,
     !.sess = sflag, !.optWait = ow, !.ctx0 = x,
     !.status = "pending",
     !.query = [_id |-> x._id, _etag |-> x._etag, str |-> NoStr, coll |-> x.def],
     !.pc = FirstStep("remove", x.def)]

\* x.save({waitAfterSave: ow, session})
Save(s, ow, cap) ==
  /\ ~TopPending
  /\ nextCall <= cap
  /\ inst[s] # NoInst
  /\ calls' = [calls EXCEPT ![nextCall] = SaveEnter(inst[s], s, 0, txn = "active", ow)]
  /\ nextCall' = nextCall + 1
  /\ UNCHANGED <<store, txStore, txn, afterCommits, afterAborts, sess, hookLog,
                 inst, nextId, lastWriter>>
  /\ UNCHANGED libVars

\* x.remove({waitAfterRemove: ow, session})
Remove(s, ow, cap) ==
  /\ ~TopPending
  /\ nextCall <= cap
  /\ inst[s] # NoInst
  /\ calls' = [calls EXCEPT ![nextCall] = RemoveEnter(inst[s], s, 0, txn = "active", ow)]
  /\ nextCall' = nextCall + 1
  /\ UNCHANGED <<store, txStore, txn, afterCommits, afterAborts, sess, hookLog,
                 inst, nextId, lastWriter>>
  /\ UNCHANGED libVars

\* a reload that also filters on the _etag the instance holds
ReloadQueryWithEtag(x) ==
  [_id |-> x._id, _etag |-> x._etag, str |-> NoStr, coll |-> x.def]

\* const query = { _id: this._id }
ReloadQuery(x) == [_id |-> x._id, _etag |-> NoEtag, str |-> NoStr, coll |-> x.def]

\* x.reload({session}): db.find with findOne, then _create on the result
\* (null when no document is found)
Reload(s, cap) ==
  /\ ~TopPending
  /\ nextCall <= cap
  /\ inst[s] # NoInst
  /\ LET x == inst[s]
         docs == View(txn = "active")
         q == ReloadQuery(x)
         doc == IF Finds(docs, q) THEN docs[q._id] ELSE NoDoc
     IN calls' = [calls EXCEPT ![nextCall] =
          [FreeCall EXCEPT !.op = "reload", !.def = x.def, !.slot = s, !.ctx0 = x,
             !.sess = (txn = "active"), !.query = q, !.obj = doc,
             !.model = IF doc = NoDoc THEN NoInst ELSE FromDoc(doc),
             !.wlast = IF doc = NoDoc THEN 0 ELSE lastWriter[q._id],
             !.status = "resolved", !.pc = "done"]]
  /\ nextCall' = nextCall + 1
  /\ UNCHANGED <<store, txStore, txn, afterCommits, afterAborts, sess, hookLog,
                 inst, nextId, lastWriter>>
  /\ UNCHANGED libVars

\* the caller's `await x.save()` / `await x.remove()` returns or throws; with
\* keep the caller assigns the instance save() resolved to: x = await x.save()
Await(c, keep) ==
  /\ calls[c].parent = 0 /\ ~calls[c].seen
  /\ calls[c].status \in {"resolved", "rejected"}
  /\ keep => calls[c].op \in {"save", "reload"} /\ calls[c].status = "resolved"
            /\ inst[calls[c].slot] # calls[c].model
  /\ inst' = IF keep THEN [inst EXCEPT ![calls[c].slot] = calls[c].model] ELSE inst
  /\ calls' = [calls EXCEPT ![c] = Fin([@ EXCEPT !.seen = TRUE])]
  /\ UNCHANGED <<store, txStore, txn, afterCommits, afterAborts, sess, hookLog,
                 nextCall, nextId, lastWriter>>
  /\ UNCHANGED libVars

Reject(r, e) == [r EXCEPT !.status = "rejected", !.err = e, !.pc = "done"]

\* x.saveWithId(i): throws unless x is new; otherwise _saveHelper with the
\* explicit id, which it assigns to the backing value of x before beforeSave
SaveWithId(s, i, cap) ==
  /\ ~TopPending
  /\ nextCall <= cap
  /\ inst[s] # NoInst
  /\ IF ~isNew(inst[s])
       THEN /\ calls' = [calls EXCEPT ![nextCall] =
                  Reject([FreeCall EXCEPT !.op = "save", !.def = inst[s].def,
                            !.slot = s, !.ctx0 = inst[s], !.explicitId = i],
                         Err("Usage", nextCall))]
            /\ UNCHANGED inst
       ELSE /\ calls' = [calls EXCEPT ![nextCall] =
                  [SaveEnter(inst[s], s, 0, txn = "active", "absent")
                     EXCEPT !.explicitId = i]]
            /\ inst' = [inst EXCEPT ![s].data._id = i]
  /\ nextCall' = nextCall + 1
  /\ UNCHANGED <<store, txStore, txn, afterCommits, afterAborts, sess, hookLog,
                 nextId, lastWriter>>
  /\ UNCHANGED libVars

\* `this` inside a before hook: beforeSave is applied to the plain backing
\* value, beforeRemove is called on the instance
Receiver(c) == IF calls[c].op = "save" THEN Ctx(c).data ELSE Ctx(c)

\* a before hook whose error is swallowed
BeforeHookSwallows(c) ==
  /\ calls[c].pc = "before"
  /\ hookLog' = Append(hookLog,
                  Logged(IF calls[c].op = "save" THEN "beforeSave" ELSE "beforeRemove", c))
  /\ \E threw \in BOOLEAN :
       calls' = [calls EXCEPT ![c].pc =
                     IF calls[c].op = "save" THEN "validate" ELSE "write",
                   ![c].bthrew = threw,
                   ![c].ran = @ \cup {"before"}]
  /\ UNCHANGED <<store, txStore, txn, afterCommits, afterAborts, sess, inst,
                 nextCall, nextId, lastWriter>>
  /\ UNCHANGED libVars

\* beforeSave.apply(obj, [options]) / this.beforeRemove(options): the hook
\* returns, assigns this.str (beforeSave only: its receiver is the plain
\* backing value), or throws
BeforeHook(c) ==
  /\ calls[c].pc = "before"
  /\ hookLog' = Append(hookLog,
                  Logged(IF calls[c].op = "save" THEN "beforeSave" ELSE "beforeRemove", c))
  /\ \/ /\ calls' = [calls EXCEPT ![c].pc =
                        IF calls[c].op = "save" THEN "validate" ELSE "write",
                      ![c].recvId = Receiver(c)._id,
                      ![c].ran = @ \cup {"before"}]
        /\ UNCHANGED inst
     \/ /\ calls' = [calls EXCEPT ![c] =
                       Reject([@ EXCEPT !.bthrew = TRUE, !.recvId = Receiver(c)._id],
                              Err("Hook", c))]
        /\ UNCHANGED inst
     \/ /\ calls[c].op = "save" /\ calls[c].slot # 0
        /\ \E v \in Vals \ {inst[calls[c].slot].data.str} :
             inst' = [inst EXCEPT ![calls[c].slot].data.str = v]
        /\ calls' = [calls EXCEPT ![c].pc = "validate",
                                  ![c].recvId = Receiver(c)._id,
                                  ![c].ran = @ \cup {"before"}]
  /\ UNCHANGED <<store, txStore, txn, afterCommits, afterAborts, sess,
                 nextCall, nextId, lastWriter>>
  /\ UNCHANGED libVars

\* a validation that returns the object it was given
ValidatedAsGiven(data, d) == data

\* what definition._schema.validateAsync(obj) resolves with: a copy of obj
\* with the defaults of the schema filled in
ValidatedValue(data, d) == Defaulted(data, d)

\* context._validate(obj), then removeMeta, the new etag and the query
Validate(c) ==
  /\ calls[c].pc = "validate"
  /\ LET x == Ctx(c)
         obj == Outgoing(ValidatedValue(x.data, x.def), x.def)
     IN calls' = [calls EXCEPT ![c] =
          IF Required(x.def) /\ ~Valid(x.data) THEN Reject(@, Err("Validation", c))
          ELSE [@ EXCEPT !.pc = "write", !.insert = isNew(x), !.query = obj,
                         !.obj = [obj EXCEPT !._etag = Etag(obj)]]]
  /\ UNCHANGED <<store, txStore, txn, afterCommits, afterAborts, sess, hookLog,
                 inst, nextCall, nextId, lastWriter>>
  /\ UNCHANGED libVars

HasHook(r, kind) == HookOf(r.op, kind) \in Methods(r.def)

\* afterCommits.unshift(...) in place of push
PushCommitFront(q, r, c) ==
  IF HasHook(r, "commit") THEN <<Cont(HookOf(r.op, "commit"), c)>> \o q ELSE q

\* options.session.afterCommits.push(() => ...afterSaveCommit / afterRemoveCommit)
PushCommit(q, r, c) ==
  IF HasHook(r, "commit") THEN Append(q, Cont(HookOf(r.op, "commit"), c)) ELSE q

\* the commit hook pushed onto afterAborts
PushAbortCommitHook(q, r, c) ==
  IF HasHook(r, "abort") THEN Append(q, Cont(HookOf(r.op, "commit"), c)) ELSE q

\* options.session.afterAborts.push(() => ...afterSaveAbort / afterRemoveAbort)
PushAbort(q, r, c) ==
  IF HasHook(r, "abort") THEN Append(q, Cont(HookOf(r.op, "abort"), c)) ELSE q

\* with a session and no afterSave / afterRemove to await, the pushes follow
\* the write directly
PushAfterWrite(r) == r.sess /\ ~HasHook(r, "after")

\* the non-session chain used with a session as well
AfterWriteNoSession(r) ==
  LET first == IF HasHook(r, "after") THEN "after"
               ELSE IF HasHook(r, "commit") THEN "commit" ELSE "done"
  IN [r EXCEPT !.pc = first,
        !.status = IF first # "done" /\ shouldWait(r.optWait, r.def)
                     THEN "pending" ELSE "resolved"]

\* the code after a successful write, up to its next await
AfterWrite(r) ==
  IF r.sess
    THEN IF HasHook(r, "after") THEN [r EXCEPT !.pc = "after"]
         ELSE [r EXCEPT !.pc = "done", !.status = "resolved"]
    ELSE LET first == IF HasHook(r, "after") THEN "after"
                      ELSE IF HasHook(r, "commit") THEN "commit" ELSE "done"
         IN [r EXCEPT !.pc = first,
               !.status = IF first # "done" /\ shouldWait(r.optWait, r.def)
                            THEN "pending" ELSE "resolved"]

\* a query on _id alone
MatchesIdOnly(docs, q) ==
  /\ q._id \in Ids
  /\ docs[q._id]._id = q._id
  /\ docs[q._id].coll = q.coll

\* the filter {_id, _etag} of db.replace / db.remove against the visible
\* documents of the collection
Matches(docs, q) ==
  /\ q._id \in Ids
  /\ docs[q._id]._id = q._id
  /\ docs[q._id]._etag = q._etag
  /\ docs[q._id].coll = q.coll

\* an insert that always lets the driver generate the _id
InsertIdGenerated(obj) == nextId

\* insertOne: the driver generates an _id unless the document carries one
InsertId(obj) == IF obj._id # 0 THEN obj._id ELSE nextId

\* a replace that inserts the document when none matches (upsert)
WriteResultUpsert(c) ==
  LET r == calls[c]
      docs == View(r.sess)
  IN IF r.op = "remove"
       THEN IF Matches(docs, r.query)
              THEN [ok |-> TRUE, id |-> r.query._id, doc |-> NoDoc, model |-> NoInst,
                    deleted |-> 1]
              ELSE [ok |-> FALSE, id |-> 0, doc |-> NoDoc, model |-> NoInst,
                    deleted |-> 0]
     ELSE IF r.insert
       THEN LET doc == [r.obj EXCEPT !._id = InsertId(r.obj)]
            IN IF docs[doc._id] = NoDoc
                 THEN [ok |-> TRUE, id |-> doc._id, doc |-> doc, model |-> FromDoc(doc),
                       deleted |-> 0]
                 ELSE [ok |-> FALSE, id |-> 0, doc |-> NoDoc, model |-> NoInst,
                       deleted |-> 0]
     ELSE IF Matches(docs, r.query) \/ docs[r.query._id] = NoDoc
       THEN [ok |-> TRUE, id |-> r.query._id, doc |-> r.obj,
             model |-> SetSaved(Ctx(c), r.obj._etag), deleted |-> 0]
       ELSE [ok |-> FALSE, id |-> 0, doc |-> NoDoc, model |-> NoInst, deleted |-> 0]

\* a remove that does not look at deletedCount
WriteResultNoCheck(c) ==
  LET r == calls[c]
      docs == View(r.sess)
  IN IF r.op = "remove"
       THEN IF r.query._id \in Ids
              THEN [ok |-> TRUE, id |-> r.query._id, doc |-> docs[r.query._id],
                    model |-> NoInst,
                    deleted |-> IF Matches(docs, r.query) THEN 1 ELSE 0]
              ELSE [ok |-> FALSE, id |-> 0, doc |-> NoDoc, model |-> NoInst,
                    deleted |-> 0]
     ELSE IF r.insert
       THEN LET doc == [r.obj EXCEPT !._id = InsertId(r.obj)]
            IN IF docs[doc._id] = NoDoc
                 THEN [ok |-> TRUE, id |-> doc._id, doc |-> doc, model |-> FromDoc(doc),
                       deleted |-> 0]
                 ELSE [ok |-> FALSE, id |-> 0, doc |-> NoDoc, model |-> NoInst,
                       deleted |-> 0]
     ELSE IF Matches(docs, r.query)
       THEN [ok |-> TRUE, id |-> r.query._id, doc |-> r.obj,
             model |-> SetSaved(Ctx(c), r.obj._etag), deleted |-> 0]
       ELSE [ok |-> FALSE, id |-> 0, doc |-> NoDoc, model |-> NoInst, deleted |-> 0]

\* the outcome of db.remove / db.insert / db.replace: whether the call goes
\* on, the document written, the instance built, result.deletedCount
WriteResult(c) ==
  LET r == calls[c]
      docs == View(r.sess)
  IN IF r.op = "remove"
       THEN IF Matches(docs, r.query)
              THEN [ok |-> TRUE, id |-> r.query._id, doc |-> NoDoc, model |-> NoInst,
                    deleted |-> 1]
              ELSE [ok |-> FALSE, id |-> 0, doc |-> NoDoc, model |-> NoInst,
                    deleted |-> 0]
     ELSE IF r.insert
       THEN LET doc == [r.obj EXCEPT !._id = InsertId(r.obj)]
            IN IF docs[doc._id] = NoDoc
                 THEN [ok |-> TRUE, id |-> doc._id, doc |-> doc, model |-> FromDoc(doc),
                       deleted |-> 0]
                 ELSE [ok |-> FALSE, id |-> 0, doc |-> NoDoc, model |-> NoInst,
                       deleted |-> 0]
     ELSE IF Matches(docs, r.query)
       THEN [ok |-> TRUE, id |-> r.query._id, doc |-> r.obj,
             model |-> SetSaved(Ctx(c), r.obj._etag), deleted |-> 0]
       ELSE [ok |-> FALSE, id |-> 0, doc |-> NoDoc, model |-> NoInst, deleted |-> 0]

\* the errors db.insert / db.replace may throw: a duplicate-key error with
\* code 11000 and the E11000 message, with the code only, with the message
\* only, and an error that is neither
DriverErrors == {"Dup11000", "DupCode", "DupMsg", "Network"}
Code(e) == IF e.type \in {"Dup11000", "DupCode"} THEN 11000 ELSE 0
StartsE11000(e) == e.type \in {"Dup11000", "DupMsg"}

\* error.code === 11000 || error.message.startsWith('E11000 duplicate key')
IsDuplicateKey(e) == Code(e) = 11000 \/ StartsE11000(e)

\* the write would put a second document with the same `str` into a
\* collection with the unique index
DupKey(c) ==
  LET r == calls[c]
  IN /\ r.op = "save" /\ UniqueStr(r.def)
     /\ \E i \in Ids : /\ View(r.sess)[i].coll = r.def
                        /\ View(r.sess)[i].str = r.obj.str
                        /\ i # r.obj._id

\* transformDuplicateKeyError applied to the instance as it was at the call
TransformThisStale(c) == Outgoing(calls[c].ctx0.data, calls[c].def)

\* transformDuplicateKeyError.apply(obj, [error]): obj is the validated
\* document without meta and with the new _etag
TransformThis(c) == calls[c].obj

\* db.insert / db.replace throws: the catch block of _saveHelper
WriteFails(c) ==
  /\ calls[c].pc = "write" /\ calls[c].op = "save"
  /\ \E t \in DriverErrors :
       LET e == Err(t, c)
           hook == IsDuplicateKey(e) /\
                   "transformDuplicateKeyError" \in Methods(calls[c].def)
       IN /\ IsDuplicateKey(e) => DupKey(c)
          /\ calls' = [calls EXCEPT ![c] =
                 Reject([@ EXCEPT !.raw = e,
                           !.tArg = IF hook THEN e ELSE NoErr,
                           !.tRecv = IF hook THEN TransformThis(c) ELSE NoDoc],
                        IF hook THEN Err("Transformed", c) ELSE e)]
          /\ hookLog' = IF hook
                          THEN Append(hookLog, Logged("transformDuplicateKeyError", c))
                          ELSE hookLog
  /\ UNCHANGED <<store, txStore, txn, afterCommits, afterAborts, sess, inst,
                 nextCall, nextId, lastWriter>>
  /\ UNCHANGED libVars

Write(c) ==
  /\ calls[c].pc = "write"
  /\ ~DupKey(c)
  /\ (calls[c].op = "save" /\ calls[c].insert /\ calls[c].obj._id = 0) =>
        nextId <= MaxIds /\ View(calls[c].sess)[nextId] = NoDoc
  /\ LET r == calls[c]
         w == WriteResult(c)
         done == AfterWrite([r EXCEPT !.model = w.model, !.wrote = TRUE,
                               !.deleted = w.deleted,
                               !.wlast = lastWriter[w.id]])
     IN IF w.ok
          THEN /\ calls' = [calls EXCEPT ![c] = done]
               /\ IF r.sess
                    THEN txStore' = [txStore EXCEPT ![w.id] = w.doc] /\ UNCHANGED store
                    ELSE store' = [store EXCEPT ![w.id] = w.doc] /\ UNCHANGED txStore
               /\ lastWriter' = [lastWriter EXCEPT ![w.id] = c]
               /\ nextId' = IF r.op = "save" /\ r.insert /\ r.obj._id = 0
                              THEN nextId + 1 ELSE nextId
               /\ afterCommits' = IF PushAfterWrite(r)
                                    THEN PushCommit(afterCommits, r, c) ELSE afterCommits
               /\ afterAborts' = IF PushAfterWrite(r)
                                   THEN PushAbort(afterAborts, r, c) ELSE afterAborts
          ELSE /\ calls' = [calls EXCEPT ![c] =
                   Reject([@ EXCEPT !.wlast =
                             IF r.query._id \in Ids THEN lastWriter[r.query._id] ELSE 0],
                          Err(IF r.op = "save" /\ r.insert THEN "Duplicate"
                              ELSE "Conflict", c))]
               /\ UNCHANGED <<store, txStore, lastWriter, nextId, afterCommits, afterAborts>>
  /\ UNCHANGED <<txn, sess, hookLog, inst, nextCall>>
  /\ UNCHANGED libVars

\* a chain that goes on to the commit hook whatever the after hook did
AfterDoneThenCommit(r, e) ==
  LET ok == IF e = NoErr THEN [r EXCEPT !.ran = @ \cup {"after"}] ELSE r
  IN IF r.sess THEN [ok EXCEPT !.pc = "done", !.status = "resolved"]
     ELSE IF HasHook(r, "commit") THEN [ok EXCEPT !.pc = "commit"]
     ELSE Fin([ok EXCEPT !.pc = "done", !.status = "resolved"])

\* the code after `await afterSave(...)` / `await afterRemove(...)` settled
\* with e (NoErr: the hook returned)
AfterDone(r, e) ==
  IF e = NoErr
    THEN LET ok == [r EXCEPT !.ran = @ \cup {"after"}]
         IN IF r.sess THEN [ok EXCEPT !.pc = "done", !.status = "resolved"]
            ELSE IF HasHook(r, "commit") THEN [ok EXCEPT !.pc = "commit"]
            ELSE Fin([ok EXCEPT !.pc = "done", !.status = "resolved"])
    ELSE IF r.status = "pending" THEN Reject(r, e)
         ELSE Fin([r EXCEPT !.pc = "done", !.chainErr = e])

Queued(r, e) == r.sess /\ e = NoErr

\* ModelB.findOne(...) inside ModelA's afterSave / afterRemove
FoundB(docs) == {i \in Ids : docs[i].coll = "B"}
FirstB(docs) == docs[CHOOSE i \in FoundB(docs) : \A j \in FoundB(docs) : i <= j]

\* ModelA's afterSave: b.set({strs}).save(saveOpts), or
\* ModelB.create({strs}).save(saveOpts) when there is no ModelB document
ChildSave(c) ==
  LET r == calls[c]
      docs == View(r.sess)
      x == IF FoundB(docs) # {} THEN Set(FromDoc(FirstB(docs)), r.model.str)
           ELSE Create("B", Plain(0, NoEtag, r.model.str, <<>>, <<>>))
  IN SaveEnter(x, 0, c, r.sess, r.optWait)

\* ModelA's afterRemove: b.remove(saveOpts)
ChildRemove(c) ==
  LET r == calls[c]
  IN RemoveEnter(FromDoc(FirstB(View(r.sess))), 0, c, r.sess, r.optWait)

\* a plain afterSave / afterRemove hook runs and returns or throws
AfterHook(c) ==
  /\ calls[c].pc = "after"
  /\ LET r == calls[c]
     IN /\ ~Nested(r.def, HookOf(r.op, "after")) \/
             (r.op = "remove" /\ FoundB(View(r.sess)) = {})
        /\ hookLog' = Append(hookLog, Logged(HookOf(r.op, "after"), c))
        /\ \E e \in {NoErr, Err("Hook", c)} :
             /\ calls' = [calls EXCEPT ![c] = AfterDone(r, e)]
             /\ afterCommits' = IF Queued(r, e) THEN PushCommit(afterCommits, r, c)
                                ELSE afterCommits
             /\ afterAborts' = IF Queued(r, e) THEN PushAbort(afterAborts, r, c)
                               ELSE afterAborts
  /\ UNCHANGED <<store, txStore, txn, sess, inst, nextCall, nextId, lastWriter>>
  /\ UNCHANGED libVars

\* ModelA's afterSave / afterRemove starts the save / remove of a ModelB
\* document with the options it was given and awaits it
AfterHookNested(c) ==
  /\ calls[c].pc = "after"
  /\ nextCall <= (IF calls[c].sess THEN MaxTxCalls ELSE MaxCalls)
  /\ LET r == calls[c]
     IN /\ Nested(r.def, HookOf(r.op, "after"))
        /\ r.op = "remove" => FoundB(View(r.sess)) # {}
        /\ hookLog' = Append(hookLog, Logged(HookOf(r.op, "after"), c))
        /\ calls' = [calls EXCEPT ![c].pc = "afterWait", ![c].child = nextCall,
                       ![nextCall] = IF r.op = "save" THEN ChildSave(c)
                                     ELSE ChildRemove(c)]
  /\ nextCall' = nextCall + 1
  /\ UNCHANGED <<store, txStore, txn, afterCommits, afterAborts, sess, inst,
                 nextId, lastWriter>>
  /\ UNCHANGED libVars

\* the nested save / remove settled: the awaiting hook returns or rethrows
ChildReturn(c) ==
  /\ calls[c].pc = "afterWait"
  /\ calls[calls[c].child].status \in {"resolved", "rejected"}
  /\ LET r == calls[c]
         k == calls[r.child]
         e == IF k.status = "rejected" THEN k.err ELSE NoErr
     IN /\ calls' = [calls EXCEPT ![c] = AfterDone(r, e),
                                  ![r.child] = Fin([@ EXCEPT !.seen = TRUE])]
        /\ afterCommits' = IF Queued(r, e) THEN PushCommit(afterCommits, r, c)
                           ELSE afterCommits
        /\ afterAborts' = IF Queued(r, e) THEN PushAbort(afterAborts, r, c)
                          ELSE afterAborts
  /\ UNCHANGED <<store, txStore, txn, sess, hookLog, inst, nextCall, nextId,
                 lastWriter>>
  /\ UNCHANGED libVars

\* without a session: chain.then(() => afterSaveCommit(...))
CommitHook(c) ==
  /\ calls[c].pc = "commit"
  /\ hookLog' = Append(hookLog, Logged(HookOf(calls[c].op, "commit"), c))
  /\ \E e \in {NoErr, Err("Hook", c)} :
       calls' = [calls EXCEPT ![c] =
         IF e = NoErr
           THEN Fin([@ EXCEPT !.pc = "done", !.status = "resolved",
                                !.ran = @ \cup {"commit"}])
         ELSE IF @.status = "pending" THEN Reject(@, e)
         ELSE Fin([@ EXCEPT !.pc = "done", !.chainErr = e])]
  /\ UNCHANGED <<store, txStore, txn, afterCommits, afterAborts, sess, inst,
                 nextCall, nextId, lastWriter>>
  /\ UNCHANGED libVars

\* ---------------------------------------------------------------- session
\* commitTransaction(): session.commitTransaction() and endSession() succeed
CommitNative ==
  /\ txn = "active" /\ ~TopPending /\ sess.op = "none"
  /\ txn' = "committed"
  /\ store' = txStore
  /\ sess' = [IdleSess EXCEPT !.op = "commit", !.status = "running"]
  /\ hookLog' = Append(hookLog, Logged("nativeCommit", 0))
  /\ UNCHANGED <<txStore, afterCommits, afterAborts, inst, calls, nextCall,
                 nextId, lastWriter>>
  /\ UNCHANGED libVars

\* a native call whose error is kept while the continuations are run
NativeFailsThenRuns(op) ==
  /\ txn = "active" /\ ~TopPending /\ sess.op = "none"
  /\ txn' = "failed"
  /\ sess' = [IdleSess EXCEPT !.op = op, !.status = "running",
                !.error = Err("Native", 0)]
  /\ UNCHANGED <<store, txStore, afterCommits, afterAborts, hookLog, inst, calls,
                 nextCall, nextId, lastWriter>>
  /\ UNCHANGED libVars

\* commitTransaction() / abortTransaction(): the native call throws
NativeFails(op) ==
  /\ txn = "active" /\ ~TopPending /\ sess.op = "none"
  /\ txn' = "failed"
  /\ sess' = [IdleSess EXCEPT !.op = op, !.status = "rejected",
                !.error = Err("Native", 0)]
  /\ UNCHANGED <<store, txStore, afterCommits, afterAborts, hookLog, inst, calls,
                 nextCall, nextId, lastWriter>>
  /\ UNCHANGED libVars

\* abortTransaction(): session.abortTransaction() and endSession() succeed
AbortNative ==
  /\ txn = "active" /\ ~TopPending /\ sess.op = "none"
  /\ txn' = "aborted"
  /\ sess' = [IdleSess EXCEPT !.op = "abort", !.status = "running"]
  /\ hookLog' = Append(hookLog, Logged("nativeAbort", 0))
  /\ UNCHANGED <<store, txStore, afterCommits, afterAborts, inst, calls, nextCall,
                 nextId, lastWriter>>
  /\ UNCHANGED libVars

\* a catch block that keeps the last error
CommitCatchLast(error, err) == err

\* commitTransaction's catch block: `if (!error) { error = err; }`
CommitCatch(error, err) == IF ~Truthy(error) THEN err ELSE error

\* abortTransaction's catch block: `if (!err) { error = err; }`
AbortCatch(error, err) == IF ~Truthy(err) THEN err ELSE error

\* an iteration without the try/catch: the first throw ends the loop
RunAfterCommitNoCatch ==
  /\ sess.op = "commit" /\ sess.status = "running"
  /\ sess.idx <= Len(afterCommits)
  /\ LET k == afterCommits[sess.idx]
     IN /\ hookLog' = Append(hookLog, Logged(k.hook, k.call))
        /\ \E e \in {NoErr, Err("Hook", k.call)} :
             sess' = [sess EXCEPT !.idx = @ + 1,
                        !.invoked = Append(@, k),
                        !.thrown = IF e = NoErr THEN @ ELSE Append(@, e),
                        !.error = IF e = NoErr THEN @ ELSE e,
                        !.status = IF e = NoErr THEN @ ELSE "rejected"]
  /\ UNCHANGED <<store, txStore, txn, afterCommits, afterAborts, inst, calls,
                 nextCall, nextId, lastWriter>>
  /\ UNCHANGED libVars

\* one iteration of forEachSerialP over afterCommits
RunAfterCommit ==
  /\ sess.op = "commit" /\ sess.status = "running"
  /\ sess.idx <= Len(afterCommits)
  /\ LET k == afterCommits[sess.idx]
     IN /\ hookLog' = Append(hookLog, Logged(k.hook, k.call))
        /\ \E e \in {NoErr, Err("Hook", k.call)} :
             sess' = [sess EXCEPT !.idx = @ + 1,
                        !.invoked = Append(@, k),
                        !.thrown = IF e = NoErr THEN @ ELSE Append(@, e),
                        !.error = IF e = NoErr THEN @ ELSE CommitCatch(@, e)]
  /\ UNCHANGED <<store, txStore, txn, afterCommits, afterAborts, inst, calls,
                 nextCall, nextId, lastWriter>>
  /\ UNCHANGED libVars

\* one iteration of forEachSerialP over afterAborts
RunAfterAbort ==
  /\ sess.op = "abort" /\ sess.status = "running"
  /\ sess.idx <= Len(afterAborts)
  /\ LET k == afterAborts[sess.idx]
     IN /\ hookLog' = Append(hookLog, Logged(k.hook, k.call))
        /\ \E e \in {NoErr, Err("Hook", k.call)} :
             sess' = [sess EXCEPT !.idx = @ + 1,
                        !.invoked = Append(@, k),
                        !.thrown = IF e = NoErr THEN @ ELSE Append(@, e),
                        !.error = IF e = NoErr THEN @ ELSE AbortCatch(@, e)]
  /\ UNCHANGED <<store, txStore, txn, afterCommits, afterAborts, inst, calls,
                 nextCall, nextId, lastWriter>>
  /\ UNCHANGED libVars

\* `if (error) { throw error; }` at the end of commitTransaction /
\* abortTransaction; otherwise the call resolves with undefined
SessionReturn ==
  /\ sess.status = "running"
  /\ sess.idx > Len(IF sess.op = "commit" THEN afterCommits ELSE afterAborts)
  /\ sess' = [sess EXCEPT !.status = IF Truthy(sess.error) THEN "rejected"
                                     ELSE "resolved"]
  /\ UNCHANGED <<store, txStore, txn, afterCommits, afterAborts, hookLog, inst,
                 calls, nextCall, nextId, lastWriter>>
  /\ UNCHANGED libVars

\* ------------------------------------------------------------ specification
\* the steps of a running save() / remove()
Lifecycle ==
  \/ \E c \in CallIds : BeforeHook(c)
  \/ \E c \in CallIds : Validate(c)
  \/ \E c \in CallIds : Write(c)
  \/ \E c \in CallIds : AfterHook(c)

Hooks ==
  \/ \E c \in CallIds : AfterHookNested(c)
  \/ \E c \in CallIds : ChildReturn(c)

\* callers working on the stored ModelC document without a session
Next ==
  \/ \E s \in Slots, i \in Ids : FindOne(s, i)
  \/ \E s \in Slots, v \in Vals : SetStr(s, v)
  \/ \E s \in Slots : DelStr(s)
  \/ \E s \in Slots : Save(s, "absent", MaxCalls)
  \/ \E s \in Slots : Remove(s, "absent", MaxCalls)
  \/ \E c \in CallIds, keep \in BOOLEAN : Await(c, keep)
  \/ Lifecycle

Spec == Init /\ [][Next]_vars

\* a caller working on ModelA documents inside one transaction:
\* createSession() and startTransaction() on empty collections
InitSession ==
  /\ store = [i \in Ids |-> NoDoc]
  /\ txStore = [i \in Ids |-> NoDoc]
  /\ txn = "active"
  /\ afterCommits = <<>>
  /\ afterAborts = <<>>
  /\ sess = IdleSess
  /\ hookLog = <<>>
  /\ inst = [s \in Slots |-> NoInst]
  /\ calls = [c \in CallIds |-> FreeCall]
  /\ nextCall = 1
  /\ nextId = 1
  /\ lastWriter = [i \in Ids |-> 0]
  /\ LibIdle

NextSession ==
  \/ \E v \in Vals : txn = "active" /\ NewInstance(1, "A", v)
  \/ \E v \in Vals : txn = "active" /\ SetStr(1, v)
  \/ \E ow \in {"absent", "false", "true"} : txn = "active" /\ Save(1, ow, MaxTxCalls)
  \/ \E ow \in {"absent", "false", "true"} : txn = "active" /\ Remove(1, ow, MaxTxCalls)
  \/ \E c \in CallIds, keep \in BOOLEAN : Await(c, keep)
  \/ Lifecycle
  \/ Hooks
  \/ CommitNative
  \/ AbortNative
  \/ \E op \in {"commit", "abort"} : NativeFails(op)
  \/ RunAfterCommit
  \/ RunAfterAbort
  \/ SessionReturn

SpecSession == InitSession /\ [][NextSession]_vars

\* a caller saving and removing documents of every definition with every
\* waitAfterSave / waitAfterRemove option, without a session
NextWait ==
  \/ \E d \in Defs : NewInstance(1, d, 1)
  \/ \E ow \in OptWaits : Save(1, ow, MaxCalls)
  \/ \E ow \in OptWaits : Remove(1, ow, MaxCalls)
  \/ \E c \in CallIds, keep \in BOOLEAN : Await(c, keep)
  \/ Lifecycle
  \/ Hooks
  \/ \E c \in CallIds : CommitHook(c)

SpecWait == Init /\ [][NextWait]_vars

\* the documents ModelA.create({str: 1}).save() leaves in empty collections:
\* the ModelA document and the ModelB document its afterSave hook creates
FirstDocA ==
  LET obj == Outgoing(Plain(0, NoEtag, 1, <<>>, <<>>), "A")
  IN [obj EXCEPT !._id = 1, !._etag = Etag(obj)]
FirstDocB ==
  LET obj == Outgoing(Plain(0, NoEtag, 1, <<>>, <<>>), "B")
  IN [obj EXCEPT !._id = 2, !._etag = Etag(obj)]

\* the document ModelD.create({}).save() leaves
FirstDocD ==
  LET obj == Outgoing(Plain(0, NoEtag, Default("D"), <<>>, <<>>), "D")
  IN [obj EXCEPT !._id = 1, !._etag = Etag(obj)]

\* two holders of a stored ModelD document, no session
InitDefault ==
  /\ store = [i \in Ids |-> IF i = 1 THEN FirstDocD ELSE NoDoc]
  /\ txStore = [i \in Ids |-> NoDoc]
  /\ txn = "none"
  /\ afterCommits = <<>>
  /\ afterAborts = <<>>
  /\ sess = IdleSess
  /\ hookLog = <<>>
  /\ inst = [s \in Slots |-> NoInst]
  /\ calls = [c \in CallIds |-> FreeCall]
  /\ nextCall = 1
  /\ nextId = 2
  /\ lastWriter = [i \in Ids |-> 0]
  /\ LibIdle

\* callers creating, loading, changing and saving ModelD documents
NextDefault ==
  \/ \E v \in Vals : NewInstance(1, "D", v)
  \/ \E s \in Slots, i \in Ids : FindOne(s, i)
  \/ \E s \in Slots, v \in Vals : SetStr(s, v)
  \/ \E s \in Slots : DelStr(s)
  \/ \E s \in Slots : Save(s, "absent", MaxCalls)
  \/ \E c \in CallIds, keep \in BOOLEAN : Await(c, keep)
  \/ Lifecycle

SpecDefault == InitDefault /\ [][NextDefault]_vars

\* a caller giving new and stored ModelC instances an explicit _id
NextWithId ==
  \/ \E v \in Vals : NewInstance(1, "C", v)
  \/ \E i \in Ids : FindOne(1, i)
  \/ \E i \in Ids : SaveWithId(1, i, MaxCalls)
  \/ \E c \in CallIds, keep \in BOOLEAN : Await(c, keep)
  \/ Lifecycle

SpecWithId == Init /\ [][NextWithId]_vars

\* the document ModelWithWhere.create({str: 1}).save() leaves
FirstDocW ==
  LET obj == Outgoing(Plain(0, NoEtag, 1, <<>>, <<>>), "W")
  IN [obj EXCEPT !._id = 1, !._etag = Etag(obj)]

\* two holders of a stored ModelWithWhere document, no session
InitReload ==
  /\ store = [i \in Ids |-> IF i = 1 THEN FirstDocW ELSE NoDoc]
  /\ txStore = [i \in Ids |-> NoDoc]
  /\ txn = "none"
  /\ afterCommits = <<>>
  /\ afterAborts = <<>>
  /\ sess = IdleSess
  /\ hookLog = <<>>
  /\ inst = [s \in Slots |-> NoInst]
  /\ calls = [c \in CallIds |-> FreeCall]
  /\ nextCall = 1
  /\ nextId = 2
  /\ lastWriter = [i \in Ids |-> 0]
  /\ LibIdle

NextReload ==
  \/ \E s \in Slots, i \in Ids : FindOne(s, i)
  \/ \E s \in Slots, v \in Vals : SetStr(s, v)
  \/ \E s \in Slots : DelStr(s)
  \/ \E s \in Slots : Save(s, "absent", MaxRetryCalls)
  \/ \E s \in Slots : Reload(s, MaxRetryCalls)
  \/ \E c \in CallIds, keep \in BOOLEAN : Await(c, keep)
  \/ \E c \in CallIds : Validate(c)
  \/ \E c \in CallIds : Write(c)

SpecReload == InitReload /\ [][NextReload]_vars

\* the documents create({str: 1}).save() leaves in the two collections with
\* the unique index
FirstDocU ==
  LET obj == Outgoing(Plain(0, NoEtag, 1, <<>>, <<>>), "U")
  IN [obj EXCEPT !._id = 1, !._etag = Etag(obj)]
FirstDocV ==
  LET obj == Outgoing(Plain(0, NoEtag, 1, <<>>, <<>>), "V")
  IN [obj EXCEPT !._id = 2, !._etag = Etag(obj)]

\* a caller saving into the two collections with the unique index, no session
InitDup ==
  /\ store = [i \in Ids |-> IF i = 1 THEN FirstDocU ELSE IF i = 2 THEN FirstDocV ELSE NoDoc]
  /\ txStore = [i \in Ids |-> NoDoc]
  /\ txn = "none"
  /\ afterCommits = <<>>
  /\ afterAborts = <<>>
  /\ sess = IdleSess
  /\ hookLog = <<>>
  /\ inst = [s \in Slots |-> NoInst]
  /\ calls = [c \in CallIds |-> FreeCall]
  /\ nextCall = 1
  /\ nextId = 3
  /\ lastWriter = [i \in Ids |-> 0]
  /\ LibIdle

NextDup ==
  \/ \E d \in {"U", "V"}, v \in Vals : NewInstance(1, d, v)
  \/ \E i \in Ids : FindOne(1, i)
  \/ \E v \in Vals : SetStr(1, v)
  \/ DelStr(1)
  \/ Save(1, "absent", MaxCalls)
  \/ \E c \in CallIds, keep \in BOOLEAN : Await(c, keep)
  \/ \E c \in CallIds : BeforeHook(c)
  \/ \E c \in CallIds : Validate(c)
  \/ \E c \in CallIds : Write(c)
  \/ \E c \in CallIds : WriteFails(c)
  \/ \E c \in CallIds : AfterHook(c)

SpecDup == InitDup /\ [][NextDup]_vars

\* two holders of the stored ModelA document inside one transaction
InitRemove ==
  /\ store = [i \in Ids |-> IF i = 1 THEN FirstDocA ELSE IF i = 2 THEN FirstDocB ELSE NoDoc]
  /\ txStore = store
  /\ txn = "active"
  /\ afterCommits = <<>>
  /\ afterAborts = <<>>
  /\ sess = IdleSess
  /\ hookLog = <<>>
  /\ inst = [s \in Slots |-> NoInst]
  /\ calls = [c \in CallIds |-> FreeCall]
  /\ nextCall = 1
  /\ nextId = 3
  /\ lastWriter = [i \in Ids |-> 0]
  /\ LibIdle

NextRemove ==
  \/ \E s \in Slots : FindOne(s, 1)
  \/ \E s \in Slots, v \in Vals : SetStr(s, v)
  \/ \E s \in Slots : Save(s, "absent", MaxTxCalls)
  \/ \E s \in Slots : Remove(s, "absent", MaxTxCalls)
  \/ \E c \in CallIds, keep \in BOOLEAN : Await(c, keep)
  \/ Lifecycle
  \/ Hooks

SpecRemove == InitRemove /\ [][NextRemove]_vars

\* a caller setting and deleting paths of a new instance and of an instance
\* loaded from the stored document
InitPaths ==
  /\ store = [i \in Ids |-> IF i = 1 THEN FirstDoc ELSE NoDoc]
  /\ txStore = [i \in Ids |-> NoDoc]
  /\ txn = "none"
  /\ afterCommits = <<>>
  /\ afterAborts = <<>>
  /\ sess = IdleSess
  /\ hookLog = <<>>
  /\ inst \in {[s \in Slots |-> IF s = 1 THEN x ELSE NoInst] :
                 x \in {Create("C", Plain(0, NoEtag, 1, <<>>, <<>>)), FromDoc(FirstDoc)}}
  /\ calls = [c \in CallIds |-> FreeCall]
  /\ nextCall = 1
  /\ nextId = 2
  /\ lastWriter = [i \in Ids |-> 0]
  /\ LibIdle

NextPaths ==
  \/ \E p \in Paths, v \in Vals \ {NoStr} : SetAt(1, p, v)
  \/ \E p \in Paths : DelAt(1, p)

SpecPaths == InitPaths /\ [][NextPaths]_vars

\* -------------------------------------------------------------- properties
Settled(c) == calls[c].status \in {"resolved", "rejected"}

\* how often hook h of call c has been invoked
Count(h, c) == Cardinality({p \in 1..Len(hookLog) : hookLog[p] = Logged(h, c)})

InQueues(c) ==
  \/ \E p \in 1..Len(afterCommits) : afterCommits[p].call = c
  \/ \E p \in 1..Len(afterAborts) : afterAborts[p].call = c

\* two top-level saves without a session, a before b, on copies of the same
\* persisted document version, b's copy modified, a's save succeeded with a
\* write, b's save settled and not yet consumed, no third writer since
StaleSave(a, b) ==
  LET ra == calls[a]
      rb == calls[b]
  IN /\ a < b
     /\ ra.op = "save" /\ rb.op = "save"
     /\ ra.parent = 0 /\ rb.parent = 0 /\ ~ra.sess /\ ~rb.sess
     /\ rb.ctx0._id # 0
     /\ ra.ctx0._id = rb.ctx0._id /\ ra.ctx0._etag = rb.ctx0._etag
     /\ ra.status = "resolved" /\ ra.wrote
     /\ isModified(rb.ctx0)
     /\ Settled(b) /\ ~rb.seen
     /\ lastWriter[rb.ctx0._id] \in {a, b}

\* C1: when two instances loaded from the same persisted document are both
\* modified and the first one's save() succeeds, the later save() of the other
\* never succeeds: once past beforeSave and validation it rejects with a
\* Conflict error (409), it writes nothing, and the stored document is exactly
\* what the first save wrote.
C1_StaleSaveConflicts ==
  \A a \in CallIds, b \in CallIds :
    StaleSave(a, b) =>
      /\ calls[b].status = "rejected"
      /\ ~calls[b].wrote
      /\ calls[b].query # NoDoc =>
           calls[b].err.type = "Conflict" /\ StatusCode(calls[b].err) = 409
      /\ lastWriter[calls[b].ctx0._id] = a
      /\ store[calls[b].ctx0._id] = calls[a].obj

C1_Witness ==
  \E a \in CallIds, b \in CallIds :
    /\ StaleSave(a, b)
    /\ calls[b].err.type = "Conflict"
    /\ store[calls[b].ctx0._id] = calls[a].obj
    /\ store[calls[b].ctx0._id] # FirstDoc

\* C2: save() on an instance that is neither new nor modified resolves to the
\* same instance, writes nothing, runs no hook and queues nothing on the
\* session.
C2_NoOpSave ==
  \A c \in CallIds :
    (calls[c].op = "save" /\ ~calls[c].seen
       /\ ~isNew(calls[c].ctx0) /\ ~isModified(calls[c].ctx0)) =>
      /\ calls[c].status = "resolved" /\ calls[c].pc = "done"
      /\ calls[c].model = calls[c].ctx0
      /\ ~calls[c].wrote
      /\ \A i \in Ids : lastWriter[i] # c
      /\ \A p \in 1..Len(hookLog) : hookLog[p].call # c
      /\ ~InQueues(c)

C2_Witness ==
  \E c \in CallIds :
    /\ calls[c].op = "save" /\ ~calls[c].seen /\ calls[c].sess
    /\ ~isNew(calls[c].ctx0) /\ ~isModified(calls[c].ctx0)
    /\ calls[c].status = "resolved"
    /\ afterCommits # <<>>

\* C3: a save whose value fails validation rejects with a Validation error
\* (status code 400); it performs no insert or replace, runs no after-hook
\* and queues nothing, so no document lacking the required `str` is ever
\* written or stored, also not by the commit of the transaction the save ran
\* in.
C3_ValidationRejects ==
  /\ \A c \in CallIds :
       calls[c].err.type = "Validation" =>
         /\ calls[c].status = "rejected"
         /\ StatusCode(calls[c].err) = 400
         /\ ~calls[c].wrote
         /\ \A i \in Ids : lastWriter[i] # c
         /\ \A k \in {"after", "commit", "abort"} : Count(HookOf("save", k), c) = 0
         /\ ~InQueues(c)
  /\ \A c \in CallIds :
       (calls[c].op = "save" /\ (calls[c].wrote \/ calls[c].pc = "write")) =>
         calls[c].obj.str # NoStr
  /\ \A i \in Ids :
       /\ store[i] # NoDoc => store[i].str # NoStr
       /\ txStore[i] # NoDoc => txStore[i].str # NoStr

C3_Witness ==
  \E c \in CallIds :
    /\ calls[c].err.type = "Validation" /\ calls[c].sess
    /\ Count("beforeSave", c) = 1
    /\ txn = "committed" /\ sess.status = "resolved"
    /\ \E i \in Ids : store[i] # NoDoc

\* the queue the running commitTransaction() / abortTransaction() iterates
Queue == IF sess.op = "commit" THEN afterCommits ELSE afterAborts

\* commitTransaction() / abortTransaction() has settled after a successful
\* native commit / abort
Finished(op) ==
  /\ sess.op = op /\ sess.status \in {"resolved", "rejected"}
  /\ txn = (IF op = "commit" THEN "committed" ELSE "aborted")

\* position of the native commit / abort in hookLog
NativeAt ==
  CHOOSE p \in 0..Len(hookLog) :
    \/ p > 0 /\ hookLog[p].hook \in {"nativeCommit", "nativeAbort"}
    \/ p = 0 /\ \A q \in 1..Len(hookLog) :
                  hookLog[q].hook \notin {"nativeCommit", "nativeAbort"}

\* C4: commitTransaction() and abortTransaction() invoke every queued
\* continuation exactly once, in push order; a continuation that throws does
\* not keep the later ones from running.
C4_EveryContinuationOnce ==
  /\ sess.status = "running" => sess.invoked = SubSeq(Queue, 1, sess.idx - 1)
  /\ (Finished("commit") \/ Finished("abort")) =>
       /\ sess.invoked = Queue
       /\ Len(hookLog) = NativeAt + Len(Queue)
       /\ \A p \in 1..Len(Queue) : hookLog[NativeAt + p] = Queue[p]

C4_Witness ==
  /\ Finished("commit")
  /\ Len(afterCommits) >= 2
  /\ sess.invoked = afterCommits
  /\ Len(sess.thrown) >= 1
  /\ sess.thrown[1].src = afterCommits[1].call

\* C5: when afterCommit continuations throw, commitTransaction() does not
\* reject: it resolves with the list of all errors thrown, in order (the empty
\* list when none threw).
C5_CommitResolvesWithErrors ==
  Finished("commit") => sess.status = "resolved" /\ sess.value = sess.thrown

\* C6: abortTransaction() resolves with the list of every error an afterAbort
\* continuation threw; no error is silently discarded.
C6_AbortResolvesWithErrors ==
  Finished("abort") => sess.status = "resolved" /\ sess.value = sess.thrown

C5_CommitRejects ==
  /\ Finished("commit")
  /\ Len(sess.thrown) = 2
  /\ sess.status = "rejected" /\ sess.error = sess.thrown[1]

C6_AbortSwallows ==
  /\ Finished("abort")
  /\ Len(sess.thrown) >= 1
  /\ sess.status = "resolved" /\ sess.value = <<>> /\ sess.error = NoErr

\* the calls under the session that resolved after writing
Succeeded(c) == calls[c].sess /\ calls[c].status = "resolved" /\ calls[c].wrote

\* every invocation of hook h of call c comes after the native commit / abort
AfterNative(h, c, marker) ==
  \A p \in 1..Len(hookLog) :
    hookLog[p] = Logged(h, c) =>
      \E q \in 1..(p - 1) : hookLog[q].hook = marker

\* C7: for every save or remove that resolved successfully under a session:
\* when the transaction is committed its afterSaveCommit / afterRemoveCommit
\* hook runs exactly once, only after the native commit, and its abort hook
\* never runs; when it is aborted the abort hook runs exactly once, only after
\* the native abort, and the commit hook never runs.
C7_CommitXorAbortHook ==
  \A c \in CallIds :
    Succeeded(c) =>
      LET ch == HookOf(calls[c].op, "commit")
          ah == HookOf(calls[c].op, "abort")
      IN /\ AfterNative(ch, c, "nativeCommit")
         /\ AfterNative(ah, c, "nativeAbort")
         /\ Finished("commit") =>
              /\ Count(ch, c) = (IF HasHook(calls[c], "commit") THEN 1 ELSE 0)
              /\ Count(ah, c) = 0
         /\ Finished("abort") =>
              /\ Count(ah, c) = (IF HasHook(calls[c], "abort") THEN 1 ELSE 0)
              /\ Count(ch, c) = 0

C7_Witness ==
  /\ Finished("abort")
  /\ \E c \in CallIds, k \in CallIds :
       /\ Succeeded(c) /\ calls[c].op = "save" /\ Count("afterSaveAbort", c) = 1
       /\ Succeeded(k) /\ calls[k].op = "remove" /\ Count("afterRemoveAbort", k) = 1

\* the top-level call a call belongs to
Top(c) == IF calls[c].parent = 0 THEN c ELSE calls[c].parent

\* a nested call's continuation precedes its parent's, and the continuations
\* of an earlier top-level call precede those of a later one
Ordered(q) ==
  \A i \in 1..Len(q), j \in 1..Len(q) :
    /\ calls[q[i].call].parent = q[j].call => i < j
    /\ Top(q[i].call) < Top(q[j].call) => i < j

\* a queued parent has its successful nested call queued as well
ChildrenQueued(q, kind) ==
  \A j \in 1..Len(q), c \in CallIds :
    (calls[c].parent = q[j].call /\ Succeeded(c) /\ HasHook(calls[c], kind)) =>
      \E i \in 1..Len(q) : q[i].call = c

\* C8: under one session, when A's afterSave / afterRemove saves or removes B
\* with the same session, B's continuation is queued before A's; after saving
\* A1 then A2 the hooks fire in the order B1, A1, B2, A2, on commit and on
\* abort alike.
C8_NestedBeforeParent ==
  /\ Ordered(afterCommits) /\ ChildrenQueued(afterCommits, "commit")
  /\ Ordered(afterAborts) /\ ChildrenQueued(afterAborts, "abort")
  /\ (Finished("commit") \/ Finished("abort")) =>
       \A p \in 1..Len(Queue) : hookLog[NativeAt + p] = Queue[p]

C8_Witness ==
  /\ Finished("abort")
  /\ Len(afterAborts) = 4
  /\ [p \in 1..4 |-> afterAborts[p].call] = <<2, 1, 4, 3>>
  /\ calls[2].parent = 1 /\ calls[4].parent = 3
  /\ \A p \in 1..4 : hookLog[NativeAt + p] = Logged("afterSaveAbort", afterAborts[p].call)

Deferred ==
  {"afterSaveCommit", "afterSaveAbort", "afterRemoveCommit", "afterRemoveAbort"}

\* C9: under a session a save() / remove() that resolves has completed its own
\* afterSave / afterRemove first, whatever the waitAfterSave / waitAfterRemove
\* value; no Commit / Abort hook is invoked before commitTransaction() /
\* abortTransaction() is called.
C9_SessionAlwaysWaits ==
  /\ \A c \in CallIds :
       (Succeeded(c) /\ ~calls[c].seen /\ HasHook(calls[c], "after")) =>
         /\ "after" \in calls[c].ran
         /\ Count(HookOf(calls[c].op, "after"), c) = 1
         /\ calls[c].pc = "done"
  /\ sess.op = "none" => \A p \in 1..Len(hookLog) : hookLog[p].hook \notin Deferred

C9_Witness ==
  \E c \in CallIds :
    /\ Succeeded(c) /\ ~calls[c].seen /\ calls[c].optWait = "false"
    /\ calls[c].op = "remove"
    /\ "after" \in calls[c].ran
    /\ afterCommits # <<>> /\ sess.op = "none"

\* the flag as documented: the option when the options object has the key,
\* else the definition's setting, else false
EffectiveWait(r) ==
  CASE r.optWait = "true" -> TRUE
    [] r.optWait \in {"false", "undefined"} -> FALSE
    [] OTHER -> DefWait(r.def) = "true"

\* C10: without a session, a save() / remove() whose effective wait flag is
\* true never resolves before its afterSave / afterRemove has completed; when
\* the flag is false it resolves right after the write without waiting for the
\* hook.  The flag is options.waitAfterSave when the options carry the key
\* (even false), else the definition's value, else false.
C10_WaitFlag ==
  \A c \in CallIds :
    (~calls[c].sess /\ calls[c].op # "none" /\ HasHook(calls[c], "after")
       /\ ~calls[c].seen) =>
      /\ (EffectiveWait(calls[c]) /\ calls[c].status = "resolved" /\ calls[c].wrote)
           => "after" \in calls[c].ran
      /\ (~EffectiveWait(calls[c]) /\ calls[c].pc \in {"after", "afterWait", "commit"})
           => calls[c].status = "resolved"

C10_Witness ==
  \E c \in CallIds :
    /\ ~calls[c].sess /\ calls[c].op = "save" /\ ~calls[c].seen
    /\ calls[c].optWait = "false" /\ DefWait(calls[c].def) = "true"
    /\ calls[c].status = "resolved" /\ calls[c].pc = "after"

\* the state of an instance that mirrors a stored document version
PersistedClean(x) ==
  /\ x._id # 0 /\ x._etag # NoEtag
  /\ x.__modified = <<>> /\ x.__original = <<>>
  /\ ~isNew(x) /\ ~isModified(x)
  /\ x.data = Plain(x._id, x._etag, x.str, <<>>, <<>>)

\* C11: the instance a successful save() of a new or modified instance
\* resolves to has _id and _etag set, an empty __modified and a null
\* __original (isNew() and isModified() false); every non-silent set / del on
\* it yields an instance with the same _id and _etag that is modified.
C11_SavedIsPersistedClean ==
  \A c \in CallIds :
    (calls[c].op = "save" /\ calls[c].status = "resolved" /\ calls[c].wrote
       /\ ~calls[c].seen) =>
      /\ PersistedClean(calls[c].model)
      /\ \A y \in {Set(calls[c].model, v) : v \in Vals \ {NoStr}} \cup {Del(calls[c].model)} :
           /\ y._id = calls[c].model._id /\ y._etag = calls[c].model._etag
           /\ isModified(y) /\ ~isNew(y)

C11_Witness ==
  \E c \in CallIds :
    /\ calls[c].op = "save" /\ calls[c].status = "resolved" /\ calls[c].wrote
    /\ ~calls[c].seen /\ isModified(calls[c].ctx0) /\ ~isNew(calls[c].ctx0)
    /\ PersistedClean(calls[c].model)
    /\ calls[c].model._etag # calls[c].ctx0._etag
    /\ isModified(Del(calls[c].model))

\* C12: save() never changes the instance it is called on: x.toObject() after
\* the save is deep-equal to x.toObject() before it, also when beforeSave
\* assigns to fields of its receiver.
C12_SaveLeavesInstance ==
  \A c \in CallIds :
    (calls[c].op = "save" /\ calls[c].slot # 0 /\ ~calls[c].seen) =>
      inst[calls[c].slot].data = calls[c].ctx0.data

C12_BeforeSaveMutates ==
  \E c \in CallIds :
    /\ calls[c].op = "save" /\ calls[c].slot # 0 /\ ~calls[c].seen
    /\ calls[c].status = "resolved"
    /\ inst[calls[c].slot].data.str # calls[c].ctx0.data.str
    /\ inst[calls[c].slot].str = calls[c].ctx0.str

\* the __original of an instance: null unless the instance has an _id and is
\* modified, and then a plain value that is itself unmodified, carries no
\* __original and has the instance's _id and _etag
OriginalIsPersisted(x) ==
  IF x._id # 0 /\ isModified(x)
    THEN /\ Len(x.__original) = 1
         /\ x.__original[1].__original = <<>>
         /\ x.__original[1].__modified = <<>>
         /\ x.__original[1]._id = x._id /\ x.__original[1]._etag = x._etag
    ELSE x.__original = <<>>

\* a set / del on a persisted instance: the result's __original is the plain
\* value of that instance when it was unmodified, else the __original it had
KeepsOriginal ==
  \A s \in Slots :
    (inst'[s] # inst[s] /\ inst[s]._id # 0 /\ isModified(inst'[s])
       /\ inst'[s]._id = inst[s]._id /\ inst'[s]._etag = inst[s]._etag) =>
      inst'[s].__original =
        (IF inst[s].__original = <<>> THEN <<inst[s].data>> ELSE inst[s].__original)

\* C13: for an instance obtained from a persisted instance P by one or more
\* non-silent set / del calls, __original is P's plain value, never an
\* intermediate mutated value, and carries no __original itself; for an
\* instance without _id, __original stays null.
C13_OriginalIsLastPersisted ==
  [](\A s \in Slots : OriginalIsPersisted(inst[s])) /\ [][KeepsOriginal]_vars

C13_Witness ==
  /\ Len(inst[1].__modified) >= 2
  /\ inst[1]._id # 0
  /\ inst[1].str # FirstDoc.str
  /\ inst[1].__original = <<FromDoc(FirstDoc).data>>

\* C14: __modified never holds a path twice and never holds two paths of
\* which one is a dot-prefix of the other.
C14_NoDuplicateNoNested ==
  \A s \in Slots :
    \A i \in 1..Len(inst[s].__modified), j \in 1..Len(inst[s].__modified) :
      i # j =>
        /\ inst[s].__modified[i] # inst[s].__modified[j]
        /\ ~StartsWithDot(inst[s].__modified[i], inst[s].__modified[j])

C14_DuplicatePath ==
  /\ Len(inst[1].__modified) = MaxPaths
  /\ \A i \in 1..Len(inst[1].__modified) : inst[1].__modified[i] = <<"obj", "deep">>

\* q is path p or a proper dot-prefix of it
PrefixOf(q, p) ==
  /\ Len(q) <= Len(p)
  /\ \A k \in 1..Len(q) : q[k] = p[k]

\* C15: after set(p, v) on an unmodified instance, isModified(q) is true for p
\* and for every dot-prefix q of p and false for the paths unrelated to p;
\* isModified() without argument is true iff __modified is non-empty.
C15_PrefixesModified ==
  \A s \in Slots :
    /\ isModified(inst[s]) <=> inst[s].__modified # <<>>
    /\ Len(inst[s].__modified) = 1 =>
         \A q \in Paths :
           /\ PrefixOf(q, inst[s].__modified[1]) => isModifiedPath(inst[s], q)
           /\ (~PrefixOf(q, inst[s].__modified[1]) /\ ~PrefixOf(inst[s].__modified[1], q))
                => ~isModifiedPath(inst[s], q)

C15_Witness ==
  /\ inst[1].__modified = <<<<"obj", "deep", "blah">>>>
  /\ isModifiedPath(inst[1], <<"obj">>)
  /\ isModifiedPath(inst[1], <<"obj", "deep">>)
  /\ isModifiedPath(inst[1], <<"obj", "deep", "blah">>)
  /\ ~isModifiedPath(inst[1], <<"str">>)

\* C16 as stated: isModified(path) is true iff that exact path or an ancestor
\* (dot-prefix) of that path is recorded in __modified.
C16_ExactOrAncestorRecorded ==
  \A s \in Slots, q \in Paths :
    isModifiedPath(inst[s], q) <=>
      \E i \in 1..Len(inst[s].__modified) : PrefixOf(inst[s].__modified[i], q)

\* C16, amended: isModified(path) is true iff that exact path or a descendant
\* of it (a path that has it as dot-prefix) is recorded in __modified.
C16_ExactOrDescendantRecorded ==
  \A s \in Slots, q \in Paths :
    isModifiedPath(inst[s], q) <=>
      \E i \in 1..Len(inst[s].__modified) : PrefixOf(q, inst[s].__modified[i])

C16_Witness ==
  /\ inst[1].__modified = <<<<"str">>, <<"obj">>>>
  /\ isModifiedPath(inst[1], <<"obj">>)
  /\ ~isModifiedPath(inst[1], <<"obj", "deep">>)

\* the document the filter of a remove selects, if any
Hit(c) ==
  LET q == calls[c].query
      docs == View(calls[c].sess)
  IN /\ q._id \in Ids
     /\ docs[q._id]._id = q._id /\ docs[q._id]._etag = q._etag
     /\ docs[q._id].coll = q.coll

RemoveOutcome ==
  \A c \in CallIds :
    LET r == calls[c]
    IN /\ (r.op = "remove" /\ ~r.seen /\ r.pc # "before") =>
            r.query = [_id |-> r.ctx0._id, _etag |-> r.ctx0._etag, str |-> NoStr,
                       coll |-> r.def]
       /\ (r.op = "remove" /\ r.err.type = "Conflict") =>
            /\ r.status = "rejected" /\ StatusCode(r.err) = 409
            /\ ~r.wrote /\ r.deleted = 0
            /\ Count("afterRemove", c) = 0
            /\ ~InQueues(c)
            /\ \A i \in Ids : lastWriter[i] # c
       /\ (r.op = "remove" /\ r.status = "resolved" /\ ~r.seen) =>
            /\ r.wrote /\ r.deleted = 1 /\ r.model = NoInst
            /\ lastWriter[r.query._id] = c => View(r.sess)[r.query._id] = NoDoc

\* the step in which db.remove returns
RemoveStep ==
  \A c \in CallIds :
    (calls[c].op = "remove" /\ calls[c].pc = "write" /\ calls'[c].pc # "write") =>
      IF Hit(c)
        THEN /\ View(calls[c].sess)'[calls[c].query._id] = NoDoc
             /\ calls'[c].err = NoErr /\ calls'[c].deleted = 1
        ELSE /\ calls'[c].err.type = "Conflict"
             /\ store' = store /\ txStore' = txStore
             /\ afterCommits' = afterCommits /\ afterAborts' = afterAborts
             /\ hookLog' = hookLog

\* C17: remove() deletes with the filter {_id, _etag} of the instance; when no
\* document matches it rejects with a Conflict error, runs no afterRemove
\* hook, queues nothing on the session and leaves storage unchanged; otherwise
\* it resolves with the raw delete result.
C17_RemoveConflict ==
  []RemoveOutcome /\ [][RemoveStep]_vars

C17_Witness ==
  \E c \in CallIds :
    /\ calls[c].op = "remove" /\ calls[c].sess /\ ~calls[c].seen
    /\ calls[c].err.type = "Conflict"
    /\ calls[c].ctx0._id # 0
    /\ txStore[calls[c].ctx0._id] # NoDoc
    /\ txStore[calls[c].ctx0._id]._etag # calls[c].ctx0._etag
    /\ afterCommits # <<>>

BeforeThrowOutcome ==
  \A c \in CallIds :
    calls[c].bthrew =>
      /\ calls[c].status = "rejected" /\ calls[c].err = Err("Hook", c)
      /\ calls[c].pc = "done"
      /\ ~calls[c].wrote /\ calls[c].deleted = 0
      /\ \A i \in Ids : lastWriter[i] # c
      /\ \A k \in {"after", "commit", "abort"} : Count(HookOf(calls[c].op, k), c) = 0
      /\ ~InQueues(c)

\* the step in which the before hook throws
BeforeThrowStep ==
  \A c \in CallIds :
    (calls'[c].bthrew /\ ~calls[c].bthrew) =>
      /\ store' = store /\ txStore' = txStore
      /\ txn' = txn /\ sess' = sess
      /\ afterCommits' = afterCommits /\ afterAborts' = afterAborts

\* C18: if beforeSave / beforeRemove throws, save() / remove() rejects with
\* that error before any insert, replace or delete is issued; with a session
\* the call neither commits nor aborts the transaction and leaves afterCommits
\* and afterAborts unchanged.
C18_BeforeHookThrows ==
  []BeforeThrowOutcome /\ [][BeforeThrowStep]_vars

C18_Witness ==
  \E c \in CallIds :
    /\ calls[c].bthrew /\ calls[c].sess /\ calls[c].op = "remove"
    /\ calls[c].status = "rejected"
    /\ txn = "active" /\ sess.op = "none"
    /\ afterCommits # <<>> /\ afterAborts # <<>>
    /\ calls[c].ctx0._id \in Ids
    /\ txStore[calls[c].ctx0._id] # NoDoc

WithIdOutcome ==
  \A c \in CallIds :
    LET r == calls[c]
        i == r.explicitId
    IN i # 0 =>
         /\ ~isNew(r.ctx0) <=> r.err.type = "Usage"
         /\ ~isNew(r.ctx0) =>
              /\ r.status = "rejected" /\ r.err = Err("Usage", c)
              /\ ~r.wrote /\ r.pc = "done"
              /\ \A k \in 1..Len(hookLog) : hookLog[k].call # c
              /\ \A j \in Ids : lastWriter[j] # c
         /\ (~r.seen /\ "before" \in r.ran) => r.recvId = i
         /\ (~r.seen /\ r.pc \in {"write", "after"}) => r.obj._id = i
         /\ r.wrote =>
              /\ lastWriter[i] = c
              /\ \A j \in Ids \ {i} : lastWriter[j] # c
              /\ ~r.seen => r.model._id = i /\ r.model._etag = r.obj._etag
              /\ store[i] = r.obj /\ store[i]._id = i

\* the step in which db.insert returns for a document with an explicit _id
WithIdStep ==
  \A c \in CallIds :
    (calls[c].explicitId # 0 /\ calls[c].pc = "write" /\ calls'[c].pc # "write") =>
      LET i == calls[c].explicitId
      IN /\ nextId' = nextId
         /\ \A j \in Ids \ {i} : store'[j] = store[j]
         /\ IF store[i] = NoDoc
              THEN store'[i] = calls[c].obj /\ calls'[c].err = NoErr
              ELSE store'[i] = store[i] /\ calls'[c].err.type = "Duplicate"

\* C19: saveWithId(id) on an instance that is not new rejects with the usage
\* error, writes nothing and runs no hook; on a new instance the document is
\* inserted with exactly that _id, and beforeSave sees that _id on its
\* receiver.
C19_SaveWithId ==
  []WithIdOutcome /\ [][WithIdStep]_vars

C19_Witness ==
  \E c, k \in CallIds :
    /\ calls[c].explicitId > nextId /\ calls[c].wrote
    /\ store[calls[c].explicitId]._id = calls[c].explicitId
    /\ calls[k].explicitId # 0 /\ calls[k].err.type = "Usage" /\ ~calls[k].seen
    /\ store[nextId] = NoDoc

\* the document of the collection of x stored under the _id of x
Current(x) ==
  IF x._id \in Ids /\ store[x._id] # NoDoc /\ store[x._id].coll = x.def
    THEN store[x._id] ELSE NoDoc

RetryOutcome ==
  \A c \in CallIds :
    LET r == calls[c]
    IN /\ (r.op = "save" /\ r.err.type = "Conflict") =>
            /\ r.status = "rejected" /\ r.pc = "done"
            /\ ~r.wrote /\ r.child = 0
            /\ \A i \in Ids : lastWriter[i] # c
       /\ (r.op = "reload" /\ ~r.seen /\ Current(r.ctx0) # NoDoc) =>
            /\ r.status = "resolved"
            /\ r.model = FromDoc(Current(r.ctx0))
            /\ r.model._etag = store[r.ctx0._id]._etag
            /\ ~isModified(r.model)

\* a save rejected with Conflict takes no further step; a save of the
\* instance reload() returned, with no write to the document in between,
\* replaces the document
RetryStep ==
  \A c \in CallIds :
    /\ (calls[c].op = "save" /\ calls[c].err.type = "Conflict") =>
         /\ calls'[c].pc = "done" /\ ~calls'[c].wrote
         /\ calls'[c].err = calls[c].err
    /\ \A k \in CallIds :
         ( /\ calls[c].op = "save" /\ calls[c].pc = "write" /\ calls'[c].pc # "write"
           /\ calls[k].op = "reload" /\ calls[k].obj # NoDoc
           /\ calls[c].ctx0._id = calls[k].obj._id
           /\ calls[c].ctx0._etag = calls[k].obj._etag
           /\ lastWriter[calls[k].obj._id] = calls[k].wlast ) =>
         /\ calls'[c].err = NoErr /\ calls'[c].wrote
         /\ store'[calls[k].obj._id] = calls[c].obj
         /\ store'[calls[k].obj._id]._etag # calls[k].obj._etag
         /\ lastWriter'[calls[k].obj._id] = c

\* C20: a save() rejected with Conflict is not retried; reload() fetches the
\* document by _id alone, whatever _etag the instance holds and whatever the
\* definition's where filter says, and returns an instance with the stored
\* _etag; re-applying the change to it and saving succeeds when no other
\* writer intervenes.
C20_ReloadAndRetry ==
  []RetryOutcome /\ [][RetryStep]_vars

C20_Witness ==
  \E a, k, c \in CallIds :
    /\ a < k /\ k < c
    /\ calls[a].op = "save" /\ calls[a].err.type = "Conflict"
    /\ calls[k].op = "reload" /\ calls[k].obj # NoDoc
    /\ calls[k].ctx0._id = calls[a].ctx0._id
    /\ calls[k].obj._etag # calls[a].ctx0._etag
    /\ calls[k].obj.str # Where(calls[k].def)
    /\ calls[c].op = "save" /\ calls[c].wrote /\ calls[c].status = "resolved"
    /\ calls[c].ctx0._etag = calls[k].obj._etag
    /\ lastWriter[calls[k].obj._id] = c

DriverErrorOutcome ==
  \A c \in CallIds :
    LET r == calls[c]
        dup == r.raw.type \in {"Dup11000", "DupCode", "DupMsg"}
        declared == r.def = "U"
    IN (r.raw # NoErr /\ ~r.seen) =>
         /\ r.status = "rejected" /\ r.pc = "done"
         /\ ~r.wrote /\ \A i \in Ids : lastWriter[i] # c
         /\ Count("afterSave", c) = 0 /\ "after" \notin r.ran
         /\ IF dup /\ declared
              THEN /\ r.err = Err("Transformed", c)
                   /\ r.tArg = r.raw
                   /\ r.tRecv = r.obj
                   /\ r.tRecv.str = Ctx(c).data.str
                   /\ r.tRecv._etag = Etag(r.query)
                   /\ Count("transformDuplicateKeyError", c) = 1
              ELSE /\ r.err = r.raw
                   /\ r.tRecv = NoDoc /\ r.tArg = NoErr
                   /\ Count("transformDuplicateKeyError", c) = 0

\* the step in which the driver throws
DriverErrorStep ==
  \A c \in CallIds :
    (calls'[c].raw # NoErr /\ calls[c].raw = NoErr) =>
      /\ store' = store /\ txStore' = txStore
      /\ afterCommits' = afterCommits /\ afterAborts' = afterAborts

\* C21: when the insert or replace fails with a duplicate-key error (code
\* 11000 or the E11000 message) and the model declares
\* transformDuplicateKeyError, save() rejects with what the hook returns, the
\* hook being given the raw error and bound to the outgoing document as it is
\* after beforeSave and validation; without the hook, or for any other error,
\* the raw error is propagated unchanged; no after hook runs either way.
C21_DuplicateKeyTransformed ==
  []DriverErrorOutcome /\ [][DriverErrorStep]_vars

C21_Witness ==
  \E c \in CallIds :
    /\ calls[c].err = Err("Transformed", c) /\ ~calls[c].seen
    /\ ~calls[c].insert
    /\ calls[c].tRecv.str # calls[c].ctx0.data.str
    /\ calls[c].tRecv.str # NoStr

\* ------------------------------------------------------ is() and equals()
\* an empty collection, no session, nothing running
ModelIdle ==
  /\ store = [i \in Ids |-> NoDoc]
  /\ txStore = [i \in Ids |-> NoDoc]
  /\ txn = "none"
  /\ afterCommits = <<>>
  /\ afterAborts = <<>>
  /\ sess = IdleSess
  /\ hookLog = <<>>
  /\ inst = [s \in Slots |-> NoInst]
  /\ calls = [c \in CallIds |-> FreeCall]
  /\ nextCall = 1
  /\ nextId = 1
  /\ lastWriter = [i \in Ids |-> 0]

\* _etag values of the instances compared
MaxEtag == 2

\* instances of two definitions: new or stored, with or without an _etag,
\* with or without pending modifications
Instances ==
  {Create(d, Plain(i, e, 1, m, <<>>)) :
     d \in {"A", "C"}, i \in 0..MaxIds, e \in 0..MaxEtag,
     m \in {<<>>, << <<"str">> >>}}

\* a.is(b); same: a and b are the same reference
Is(a, b, same) ==
  IF same THEN TRUE
  ELSE IF a.def # b.def THEN FALSE
  ELSE IF a._id = 0 \/ b._id = 0 THEN FALSE
  ELSE a._id = b._id

\* equals without the test for the same reference
EqualsNoIdentity(a, b, same) ==
  Is(a, b, same) /\ a._etag = b._etag /\ ~isModified(a) /\ ~isModified(b)

\* a.equals(b)
Equals(a, b, same) ==
  IF same THEN TRUE
  ELSE Is(a, b, same) /\ a._etag = b._etag /\ ~isModified(a) /\ ~isModified(b)

InitEquals ==
  /\ ModelIdle
  /\ arg \in {[a |-> a, b |-> b, same |-> z] :
                a \in Instances, b \in Instances, z \in BOOLEAN}
  /\ arg.same => arg.a = arg.b
  /\ res = <<>>

CallIs ==
  /\ res = <<>>
  /\ res' = <<[is |-> Is(arg.a, arg.b, arg.same)]>>
  /\ UNCHANGED <<modelVars, arg>>

CallEquals ==
  /\ Len(res) = 1
  /\ res' = Append(res, [equals |-> Equals(arg.a, arg.b, arg.same)])
  /\ UNCHANGED <<modelVars, arg>>

NextEquals ==
  \/ CallIs
  \/ CallEquals

SpecEquals == InitEquals /\ [][NextEquals]_vars

\* C22 as stated: for all instances a and b, the same reference included,
\* a.equals(b) iff a.is(b), a and b have the same _etag and neither has
\* pending modifications.
C22_EqualsIffIsEtagClean ==
  Len(res) = 2 =>
    (res[2].equals <=> (/\ res[1].is
                        /\ arg.a._etag = arg.b._etag
                        /\ Len(arg.a.__modified) = 0
                        /\ Len(arg.b.__modified) = 0))

\* C22 amended: a.equals(b) iff a and b are the same reference, or a.is(b)
\* holds, a and b have the same _etag and neither has pending modifications;
\* a.is(b) iff same reference, or same type and the same defined _id.
C22_EqualsIffSameOrIsEtagClean ==
  Len(res) = 2 =>
    /\ res[1].is <=> (arg.same \/ (/\ arg.a.def = arg.b.def
                                   /\ arg.a._id # 0 /\ arg.a._id = arg.b._id))
    /\ res[2].equals <=> (\/ arg.same
                          \/ /\ res[1].is
                             /\ arg.a._etag = arg.b._etag
                             /\ Len(arg.a.__modified) = 0
                             /\ Len(arg.b.__modified) = 0)

C22_Witness ==
  /\ Len(res) = 2 /\ arg.same
  /\ Len(arg.a.__modified) > 0
  /\ res[2].equals

\* ------------------------------------------------- mutate(), set(), del()
\* objects on the heap: the backing value of the first instance and the
\* clones mutate() makes
MaxAddr == 4
Addrs == 1..MaxAddr
NoPlain == Plain(0, NoEtag, NoStr, <<>>, <<"free">>)

\* Immutable.create(obj, {clone: false}) of the object at address a: the
\* accessors capture the values, toObject() hands out the object itself
Wrap(h, a) ==
  [ref |-> a, _id |-> h[a]._id, _etag |-> h[a]._etag, str |-> h[a].str,
   __modified |-> h[a].__modified]

FreeAddr(h) == CHOOSE a \in Addrs : h[a] = NoPlain /\ \A b \in Addrs : b < a => h[b] # NoPlain

\* a mutate() that hands the backing value itself to the callback
MutateTargetInPlace(h, x) == x.ref

\* const obj = clone(data): the object the callback is applied to
MutateTarget(h, x) == FreeAddr(h)

\* what the callback does to `this`: set('str', v) and del('str') assign or
\* delete and call _markAsModified with the instance they were called on; a
\* plain mutate callback assigns this.str
Effect(op, v, this, original) ==
  CASE op = "set" -> MarkAsModified([this EXCEPT !.str = v], <<"str">>, original)
    [] op = "del" -> MarkAsModified([this EXCEPT !.str = NoStr], <<"str">>, original)
    [] OTHER -> [this EXCEPT !.str = v]

\* x.mutate(cb) / x.set('str', v) / x.del('str'): the heap afterwards and
\* the instance returned
Mutate(h, x, op, v) ==
  LET t == MutateTarget(h, x)
      h1 == [h EXCEPT ![t] = h[x.ref]]
      h2 == [h1 EXCEPT ![t] = Effect(op, v, @, [data |-> h1[x.ref]])]
  IN [heap |-> h2, y |-> Wrap(h2, t)]

MutateOps == {"mutate", "set", "del"}

\* one instance, new or loaded from a stored document
InitMutate ==
  /\ ModelIdle
  /\ \E i \in {0, 1}, v \in Vals :
       LET h == [a \in Addrs |-> IF a = 1 THEN Plain(i, i, v, <<>>, <<>>) ELSE NoPlain]
       IN arg = [heap |-> h, insts |-> <<Wrap(h, 1)>>]
  /\ res = <<>>

CallMutate(k, op, v) ==
  /\ k \in 1..Len(arg.insts)
  /\ \E a \in Addrs : arg.heap[a] = NoPlain
  /\ op = "del" => v = NoStr
  /\ LET x == arg.insts[k]
         m == Mutate(arg.heap, x, op, v)
     IN /\ arg' = [heap |-> m.heap, insts |-> Append(arg.insts, m.y)]
        /\ res' = Append(res, [on |-> k, op |-> op, v |-> v, y |-> m.y,
                               was |-> arg.heap[x.ref]])
  /\ UNCHANGED modelVars

NextMutate ==
  \E k \in Addrs, op \in MutateOps, v \in Vals : CallMutate(k, op, v)

SpecMutate == InitMutate /\ [][NextMutate]_vars

\* the plain value the call of res[n] has to produce
Expected(n) ==
  LET r == res[n]
      base == r.was
      mods == IF r.op = "mutate" THEN base.__modified
              ELSE MarkPath(base.__modified, <<"str">>)
      orig == IF r.op = "mutate" \/ base._id = 0 THEN base.__original
              ELSE IF base.__original # <<>> THEN base.__original ELSE <<base>>
  IN [base EXCEPT !.str = IF r.op = "del" THEN NoStr ELSE r.v,
                  !.__modified = mods, !.__original = orig]

Untouched ==
  \A n \in 1..Len(res) :
    LET x == arg.insts[res[n].on]
    IN /\ arg.heap[x.ref] = res[n].was
       /\ x = Wrap(arg.heap, x.ref)
       /\ res[n].y.ref # x.ref
       /\ arg.heap[res[n].y.ref] = Expected(n)
       /\ res[n].y = Wrap(arg.heap, res[n].y.ref)

\* a call changes no object that existed before it, and no instance
UntouchedStep ==
  /\ \A a \in Addrs : arg.heap[a] # NoPlain => arg'.heap[a] = arg.heap[a]
  /\ \A k \in 1..Len(arg.insts) : arg'.insts[k] = arg.insts[k]

\* C23: mutate(f), set and del never change the instance they are called on:
\* x.toObject() and every value read from x are the same before and after
\* the call, and the plain value of the returned instance is the effect of
\* the mutation on a deep clone of the plain value of x.
C23_MutateLeavesReceiver ==
  []Untouched /\ [][UntouchedStep]_vars

C23_Witness ==
  \E n, m \in 1..Len(res) :
    /\ n < m /\ res[n].on = res[m].on
    /\ res[n].op = "set" /\ res[m].op = "del"
    /\ res[n].was._id # 0
    /\ arg.heap[res[n].y.ref].str # res[n].was.str
    /\ arg.heap[res[n].y.ref].__original = <<res[n].was>>

\* -------------------------------------------------- ImmutableArray splice
\* length of the backing array; start and deleteCount range over
\* -(MaxLen + 1) .. MaxLen + 1
MaxLen == 3
Elems == {"a", "b"}
Arrays == UNION {[1..n -> Elems] : n \in 0..MaxLen}
Ints == (0 - (MaxLen + 1))..(MaxLen + 1)

Min(a, b) == IF a < b THEN a ELSE b
Max(a, b) == IF a > b THEN a ELSE b

\* an argument that may be omitted (undefined)
Given(n) == [given |-> TRUE, n |-> n]
Omitted == [given |-> FALSE, n |-> 0]

\* start + deleteCount, then ToIntegerOrInfinity: a sum with undefined is NaN
\* and NaN converts to 0
SumToInteger(start, dc) == IF dc.given THEN start + dc.n ELSE 0

\* the index Array.prototype.slice makes of a relative index
Rel(len, i) == IF i < 0 THEN Max(len + i, 0) ELSE Min(i, len)

\* data.slice(begin, end)
Slice(data, begin, end) ==
  LET from == Rel(Len(data), begin)
      to == Rel(Len(data), end)
  IN IF from >= to THEN <<>> ELSE SubSeq(data, from + 1, to)

\* the splice method of the array handler
Splice(data, start, dc, items) ==
  LET front == Slice(data, 0, start)
      back == Slice(data, SumToInteger(start, dc), Len(data))
  IN front \o items \o back

\* what Array.prototype.splice(start, deleteCount, ...items) leaves in the
\* array it is called on (ECMAScript: relative start clamped into 0..len, an
\* omitted deleteCount removes up to the end, deleteCount clamped into
\* 0..len - start)
NativeSplice(data, start, dc, items) ==
  LET len == Len(data)
      from == Rel(len, start)
      count == IF dc.given THEN Min(Max(dc.n, 0), len - from) ELSE len - from
  IN SubSeq(data, 1, from) \o items \o SubSeq(data, from + count + 1, len)

InitSplice ==
  /\ ModelIdle
  /\ arg \in {[a |-> a, start |-> st, dc |-> dc, items |-> it] :
                a \in Arrays, st \in Ints,
                dc \in {Given(n) : n \in Ints} \cup {Omitted},
                it \in {<<>>, <<"x">>}}
  /\ res = <<>>

CallSplice ==
  /\ res = <<>>
  /\ res' = <<[out |-> Splice(arg.a, arg.start, arg.dc, arg.items), a |-> arg.a]>>
  /\ UNCHANGED <<modelVars, arg>>

NextSplice == CallSplice

SpecSplice == InitSplice /\ [][NextSplice]_vars

\* C24: a.splice(start, deleteCount, ...items) returns an array equal to what
\* Array.prototype.splice would leave in a copy of the backing array, for
\* every integer start and every deleteCount, omitted ones included, and
\* leaves a unchanged.
C24_SpliceAsNative ==
  res # <<>> =>
    /\ res[1].out = NativeSplice(arg.a, arg.start, arg.dc, arg.items)
    /\ res[1].a = arg.a

\* a.splice(-1, 1) on ['a', 'b', 'b'] returns five elements where
\* Array.prototype.splice leaves two
C24_NegativeStartDuplicates ==
  /\ res # <<>>
  /\ arg.a = <<"a", "b", "b">> /\ arg.start = 0 - 1 /\ arg.dc = Given(1)
  /\ arg.items = <<>>
  /\ res[1].out = <<"a", "b", "a", "b", "b">>
  /\ NativeSplice(arg.a, arg.start, arg.dc, arg.items) = <<"a", "b">>

\* ------------------------------------------------------- Immutable.create
\* handlers registered with Immutable.use() on top of the library's own
MaxUse == 2

\* the type a handler is registered for: a type name ('*' when use() is given
\* the handler alone) or a constructor
HandlerTypes == {"*", "array", "objectid", "object", "Date()"}

\* the values create() wraps (everything else is returned as it is)
Kinds == {"plain", "array", "date", "objectid"}

\* typeHandlers after the module that defines Model has been loaded:
\* defined-object, array, date, bson-objectId, object
LibraryHandlers == <<"*", "array", "Date()", "objectid", "*">>

\* the tests of the forEach callback of create(): '*', typeof data === type
\* (every wrapped value has typeof 'object'), 'array' with Array.isArray,
\* 'objectid' with data._bsontype, a constructor with instanceof
HandlerMatches(type, kind) ==
  CASE type = "*" -> TRUE
    [] type = "object" -> TRUE
    [] type = "array" -> kind = "array"
    [] type = "objectid" -> kind = "objectid"
    [] OTHER -> kind = "date"

RECURSIVE MatchingFrom(_, _, _)
MatchingFrom(handlers, kind, p) ==
  IF p > Len(handlers) THEN <<>>
  ELSE IF HandlerMatches(handlers[p], kind)
         THEN <<p>> \o MatchingFrom(handlers, kind, p + 1)
         ELSE MatchingFrom(handlers, kind, p + 1)

\* a loop that stops at the first handler that matches
InvokedFirstOnly(handlers, kind) ==
  LET all == MatchingFrom(handlers, kind, 1)
  IN IF all = <<>> THEN <<>> ELSE <<Head(all)>>

\* typeHandlers.forEach(...): the positions of the handlers invoked, in the
\* order of invocation; the callback's `return` ends that iteration only
Invoked(handlers, kind) == MatchingFrom(handlers, kind, 1)

InitCreate ==
  /\ ModelIdle
  /\ arg = [handlers |-> LibraryHandlers]
  /\ res = <<>>

\* Immutable.use(type, handler)
Use(type) ==
  /\ res = <<>>
  /\ Len(arg.handlers) < Len(LibraryHandlers) + MaxUse
  /\ arg' = [arg EXCEPT !.handlers = Append(@, type)]
  /\ UNCHANGED <<modelVars, res>>

\* Immutable.create(data) for a value of the given kind
CallCreate(kind) ==
  /\ res = <<>>
  /\ res' = <<[kind |-> kind, invoked |-> Invoked(arg.handlers, kind)]>>
  /\ UNCHANGED <<modelVars, arg>>

NextCreate ==
  \/ \E t \in HandlerTypes : Use(t)
  \/ \E k \in Kinds : CallCreate(k)

SpecCreate == InitCreate /\ [][NextCreate]_vars

Registered == 1..Len(arg.handlers)
Fits(p) ==
  \/ arg.handlers[p] \in {"*", "object"}
  \/ arg.handlers[p] = "array" /\ res[1].kind = "array"
  \/ arg.handlers[p] = "objectid" /\ res[1].kind = "objectid"
  \/ arg.handlers[p] = "Date()" /\ res[1].kind = "date"

\* C25 as stated: create() invokes exactly one handler per wrapped value, the
\* first in registration order whose type matches; handlers registered after
\* it are not invoked, so a '*' handler registered before a specific handler
\* shadows it.
C25_FirstMatchOnly ==
  res # <<>> =>
    /\ Len(res[1].invoked) = 1
    /\ Fits(res[1].invoked[1])
    /\ \A p \in Registered : p < res[1].invoked[1] => ~Fits(p)

\* C25 amended: create() invokes every registered handler whose type matches
\* the value, each once, in registration order; a matching handler does not
\* keep the handlers registered after it from being invoked.
C25_EveryMatchInOrder ==
  res # <<>> =>
    /\ \A p \in Registered :
         Cardinality({n \in 1..Len(res[1].invoked) : res[1].invoked[n] = p})
           = IF Fits(p) THEN 1 ELSE 0
    /\ \A n, m \in 1..Len(res[1].invoked) :
         n < m => res[1].invoked[n] < res[1].invoked[m]

C25_Witness ==
  /\ res # <<>> /\ res[1].kind = "array"
  /\ \E n, m \in 1..Len(res[1].invoked) :
       /\ n < m
       /\ arg.handlers[res[1].invoked[n]] = "*"
       /\ arg.handlers[res[1].invoked[m]] = "array"

\* -------------------------------------------------- static query operations
StaticOps ==
  {"count", "find", "findOne", "exists", "update", "remove", "distinct",
   "project", "aggregate"}

\* values of `str` in queries and documents: absent, the value the where of
\* ModelWithWhere demands, and further values
QueryStrs == 0..(MaxVal + 1)

\* the query argument (for aggregate: the $match of the first stage,
\* "undefined" when there is no first stage or it has no $match): undefined,
\* null, 0, 1, 'what', [], new Date(), or a plain object with the keys _id
\* and str present or absent
NotObjects == {"undefined", "null", "zero", "number", "string", "array", "date"}
Query(kind, id, str) == [kind |-> kind, _id |-> id, str |-> str]
Queries ==
  {Query(k, 0, NoStr) : k \in NotObjects} \cup
  {Query("object", i, v) : i \in 0..1, v \in QueryStrs}

\* JavaScript truthiness of the query argument
TruthyQuery(q) == q.kind \notin {"undefined", "null", "zero"}
\* !query || !isPlainObject(query)
IsPlain(q) == q.kind = "object"
\* isEmpty(query)
IsEmptyQuery(q) == q.kind = "object" /\ q._id = 0 /\ q.str = NoStr

NotAnObject == "Query must be an object."
Unrestricted == "To make an unrestricted query, please set the allowGlobalQuery option."
NoMessage == "none"

\* { ...definition.where, ...query }
Merged(d, q) ==
  LET m == makeSafeQuery([_id |-> q._id, _etag |-> NoEtag, str |-> q.str, coll |-> d])
  IN Query("object", m._id, m.str)

\* makeSafeQuery(query, options) of the definition d: the error it throws or
\* the query it returns
SafeQuery(d, q, opts) ==
  IF ~IsPlain(q) THEN [error |-> NotAnObject, query |-> q]
  ELSE IF ~opts.allowGlobalQuery /\ IsEmptyQuery(q)
    THEN [error |-> Unrestricted, query |-> q]
  ELSE [error |-> NoMessage,
        query |-> IF opts.bypassGlobalWhere \/ Where(d) = 0 THEN q ELSE Merged(d, q)]

\* a static operation up to its database call: the error it rejects with,
\* or the filter (aggregate: the stages) it hands to db
StaticCall(op, d, q, opts) ==
  LET safe == IF op = "aggregate" /\ ~TruthyQuery(q)
                THEN SafeQuery(d, Query("object", 0, NoStr), opts)
                ELSE SafeQuery(d, q, opts)
  IN IF safe.error # NoMessage THEN [error |-> safe.error, sent |-> <<>>]
     ELSE IF op = "aggregate" /\ ~TruthyQuery(q) /\ q.kind # "undefined"
       THEN [error |-> NoMessage, sent |-> <<safe.query, q>>]
     ELSE [error |-> NoMessage, sent |-> <<safe.query>>]

InitQuery ==
  /\ ModelIdle
  /\ arg \in {[def |-> d, q |-> q,
               opts |-> [allowGlobalQuery |-> a, bypassGlobalWhere |-> b]] :
                d \in {"C", "W"}, q \in Queries, a \in BOOLEAN, b \in BOOLEAN}
  /\ res = <<>>

CallStatic(op) ==
  /\ res = <<>>
  /\ res' = <<[op |-> op] @@ StaticCall(op, arg.def, arg.q, arg.opts)>>
  /\ UNCHANGED <<modelVars, arg>>

NextQuery == \E op \in StaticOps : CallStatic(op)

SpecQuery == InitQuery /\ [][NextQuery]_vars

\* C26: each static query operation rejects a query that is not a plain
\* object with 'Query must be an object.' and rejects an empty query unless
\* options.allowGlobalQuery is set, where filter or not; in both cases nothing
\* is forwarded to the database.  (For aggregate the query is the $match of
\* the first stage; a pipeline without one is an empty query.)
C26_QueryValidated ==
  res # <<>> =>
    LET none == res[1].op = "aggregate" /\ arg.q.kind = "undefined"
        empty == none \/ (arg.q.kind = "object" /\ arg.q._id = 0 /\ arg.q.str = 0)
    IN /\ (arg.q.kind # "object" /\ ~none) =>
            res[1].error = NotAnObject /\ res[1].sent = <<>>
       /\ (empty /\ ~arg.opts.allowGlobalQuery) =>
            res[1].error = Unrestricted /\ res[1].sent = <<>>

\* aggregate([{ $match: null }], { allowGlobalQuery: true }) reaches the
\* database
C26_FalsyMatchForwarded ==
  /\ res # <<>> /\ res[1].op = "aggregate"
  /\ arg.q.kind = "null" /\ arg.opts.allowGlobalQuery
  /\ res[1].error = NoMessage
  /\ Len(res[1].sent) = 2 /\ res[1].sent[2].kind = "null"

\* the documents a collection may hold
QueryDocs == [_id : 1..MaxIds, str : QueryStrs]
\* the document matches the filter: every key of the filter is equal
Selects(f, doc) ==
  /\ f._id # 0 => doc._id = f._id
  /\ f.str # NoStr => doc.str = f.str
\* the document satisfies ModelWithWhere's where
InWhere(d, doc) == d = "W" => doc.str = 1

\* C27: when options.bypassGlobalWhere is not set the query forwarded to the
\* database only matches documents that satisfy the definition's where
\* filter, whatever keys the caller's query contains; when it is set the
\* caller's query is forwarded unchanged.
C27_WhereAlwaysApplies ==
  (res # <<>> /\ res[1].sent # <<>>) =>
    IF arg.opts.bypassGlobalWhere
      THEN res[1].sent[1] = IF arg.q.kind = "object" THEN arg.q
                            ELSE Query("object", 0, NoStr)
      ELSE \A doc \in QueryDocs :
             Selects(res[1].sent[1], doc) => InWhere(arg.def, doc)

\* ModelWithWhere.findOne({ str: 2 }) is forwarded as { str: 2 }
C27_CallerKeyOverridesWhere ==
  /\ res # <<>> /\ res[1].op = "findOne"
  /\ arg.def = "W" /\ ~arg.opts.bypassGlobalWhere
  /\ arg.q = Query("object", 0, 2)
  /\ res[1].sent = <<Query("object", 0, 2)>>
  /\ \E doc \in QueryDocs : Selects(res[1].sent[1], doc) /\ doc.str # 1


\* ---------------------------------------------------------------------
\* Cursor: serialForEach and forEachParallelLimitP
\* ---------------------------------------------------------------------

\* rows the native cursor holds
MaxRows == 3
\* the largest maxParallel a caller passes
MaxParallel == 2

\* what the native cursor's next() gives at its end
NoRow == 0
\* the rows of the native cursor, in cursor order, from position pos
RowsFrom(n, pos) == [i \in 1..(n - pos) |-> pos + i]
\* the factory: a model around the row, null for null
NoItem == [doc |-> NoRow]
Factory(doc) == [doc |-> doc]

Limits == {Omitted} \cup {Given(n) : n \in (0 - 1)..MaxParallel}
\* if (!maxParallel || maxParallel < 1) { maxParallel = 1; }
Limit(m) == IF ~m.given \/ m.n < 1 THEN 1 ELSE m.n

\* a promise for a row: waiting on its predecessor, asking the native cursor
\* (hasNext, next), or settled with an item
Waiting == [st |-> "waiting", val |-> NoItem]
AskedHasNext == [st |-> "hasNext", val |-> NoItem]
AskedNext == [st |-> "next", val |-> NoItem]
SettledWith(item) == [st |-> "settled", val |-> item]

\* a chain of itemWrapper calls: awaiting promise p, or its iterator call
AwaitItem(p) == [pc |-> "await", p |-> p, item |-> NoItem]
InIterator(item) == [pc |-> "iter", p |-> 0, item |-> item]
ChainDone == [pc |-> "done", p |-> 0, item |-> NoItem]
ChainFailed == [pc |-> "failed", p |-> 0, item |-> NoItem]

NoCursorCall(rows, m) ==
  [op |-> "none", rows |-> rows, from |-> rows, maxParallel |-> m,
   cursorExhausted |-> FALSE, prom |-> <<>>, chain |-> <<>>,
   running |-> {}, failed |-> {}, status |-> "none"]

InitCursor ==
  /\ ModelIdle
  /\ arg \in {NoCursorCall(RowsFrom(n, pos), m) :
                n \in 0..MaxRows, pos \in 0..MaxRows, m \in Limits}
  /\ res = <<>>

\* serialForEach: itemWrapper() asks this.next()
CallSerialForEach ==
  /\ arg.op = "none"
  /\ arg' = [arg EXCEPT !.op = "serialForEach", !.status = "pending",
                        !.prom = <<AskedNext>>, !.chain = <<AwaitItem(1)>>]
  /\ UNCHANGED <<modelVars, res>>

\* forEachParallelLimitP: nextResourceP = getNext() asks hasNext(); each of
\* the maxParallel itemWrapper calls takes nextResourceP and chains the next
\* getNext onto it
CallForEachParallelLimitP ==
  /\ arg.op = "none"
  /\ LET n == Limit(arg.maxParallel)
     IN arg' = [arg EXCEPT
          !.op = "forEachParallelLimitP", !.status = "pending",
          !.prom = [i \in 1..(n + 1) |-> IF i = 1 THEN AskedHasNext ELSE Waiting],
          !.chain = [k \in 1..n |-> AwaitItem(k)]]
  /\ UNCHANGED <<modelVars, res>>

\* nextResourceP.then(getNext): getNext runs once the promise before it has
\* settled
ChainedAlways(prom, i) == TRUE
Chained(prom, i) == i > 1 => prom[i - 1].st = "settled"

GetNext(i) ==
  /\ i \in DOMAIN arg.prom
  /\ arg.prom[i].st = "waiting"
  /\ Chained(arg.prom, i)
  /\ arg' = [arg EXCEPT !.prom[i] = IF arg.cursorExhausted THEN SettledWith(NoItem)
                                    ELSE AskedHasNext]
  /\ UNCHANGED <<modelVars, res>>

\* the native hasNext() answers: no row sets cursorExhausted, a row makes
\* getNext ask this.next()
HasNextResolves(i) ==
  /\ i \in DOMAIN arg.prom
  /\ arg.prom[i].st = "hasNext"
  /\ arg' = IF arg.rows = <<>>
              THEN [arg EXCEPT !.cursorExhausted = TRUE,
                               !.prom[i] = SettledWith(NoItem)]
              ELSE [arg EXCEPT !.prom[i] = AskedNext]
  /\ UNCHANGED <<modelVars, res>>

\* the native next() answers with the row at the cursor's position, null at
\* its end; next() resolves with the factory's model for it
NextResolves(i) ==
  /\ i \in DOMAIN arg.prom
  /\ arg.prom[i].st = "next"
  /\ arg' = IF arg.rows = <<>>
              THEN [arg EXCEPT !.prom[i] = SettledWith(NoItem)]
              ELSE [arg EXCEPT !.rows = Tail(arg.rows),
                               !.prom[i] = SettledWith(Factory(Head(arg.rows)))]
  /\ UNCHANGED <<modelVars, res>>

\* const item = await ...; if (!item) { return; } await iterator(item);
Resume(k) ==
  /\ k \in DOMAIN arg.chain
  /\ arg.chain[k].pc = "await"
  /\ arg.prom[arg.chain[k].p].st = "settled"
  /\ LET item == arg.prom[arg.chain[k].p].val
     IN IF item = NoItem
          THEN /\ arg' = [arg EXCEPT !.chain[k] = ChainDone]
               /\ res' = res
          ELSE /\ arg' = [arg EXCEPT !.chain[k] = InIterator(item),
                                     !.running = @ \cup {item.doc}]
               /\ res' = Append(res, [e |-> "invoke", row |-> item.doc])
  /\ UNCHANGED modelVars

\* the promise the iterator returned settles
IteratorResolves(r) ==
  /\ r \in arg.running
  /\ arg' = [arg EXCEPT !.running = @ \ {r}]
  /\ res' = Append(res, [e |-> "resolve", row |-> r])
  /\ UNCHANGED modelVars

IteratorRejects(r) ==
  /\ r \in arg.running
  /\ arg' = [arg EXCEPT !.running = @ \ {r}, !.failed = @ \cup {r}]
  /\ res' = Append(res, [e |-> "reject", row |-> r])
  /\ UNCHANGED modelVars

\* await iterator(item): the chain goes on once the iterator's promise has
\* settled
IteratorSettledAlways(a, item) == TRUE
IteratorSettled(a, item) == item.doc \notin a.running

\* return itemWrapper(): serialForEach asks this.next(); forEachParallelLimitP
\* returns when cursorExhausted, and otherwise takes nextResourceP and chains
\* the next getNext onto it.  A rejected iterator rejects the chain, and the
\* first rejected chain rejects the call.
Continue(k) ==
  /\ k \in DOMAIN arg.chain
  /\ arg.chain[k].pc = "iter"
  /\ IteratorSettled(arg, arg.chain[k].item)
  /\ arg' =
       IF arg.chain[k].item.doc \in arg.failed
         THEN [arg EXCEPT !.chain[k] = ChainFailed,
                          !.status = IF @ = "pending" THEN "rejected" ELSE @]
       ELSE IF arg.op = "serialForEach"
         THEN [arg EXCEPT !.prom = Append(@, AskedNext),
                          !.chain[k] = AwaitItem(Len(arg.prom) + 1)]
       ELSE IF arg.cursorExhausted
         THEN [arg EXCEPT !.chain[k] = ChainDone]
       ELSE [arg EXCEPT !.prom = Append(@, Waiting),
                        !.chain[k] = AwaitItem(Len(arg.prom))]
  /\ UNCHANGED <<modelVars, res>>

\* the returned promise (Promise.all of the chains) resolves when every chain
\* has returned
Resolve ==
  /\ arg.status = "pending"
  /\ \A k \in DOMAIN arg.chain : arg.chain[k].pc = "done"
  /\ arg' = [arg EXCEPT !.status = "resolved"]
  /\ UNCHANGED <<modelVars, res>>

NextCursor ==
  \/ CallSerialForEach
  \/ CallForEachParallelLimitP
  \/ \E i \in 1..(MaxRows + MaxParallel + 1) :
       GetNext(i) \/ HasNextResolves(i) \/ NextResolves(i)
  \/ \E k \in 1..MaxParallel : Resume(k) \/ Continue(k)
  \/ \E r \in 1..MaxRows : IteratorResolves(r) \/ IteratorRejects(r)
  \/ Resolve

SpecCursor == InitCursor /\ [][NextCursor]_vars

\* the events of a run in which every row of rows is passed to the iterator
\* in order and each call resolves before the next is made
RECURSIVE OneAtATime(_)
OneAtATime(rows) ==
  IF rows = <<>> THEN <<>>
  ELSE <<[e |-> "invoke", row |-> Head(rows)],
         [e |-> "resolve", row |-> Head(rows)]>> \o OneAtATime(Tail(rows))

IsPrefix(s, t) == Len(s) <= Len(t) /\ \A j \in 1..Len(s) : s[j] = t[j]

\* C28: serialForEach invokes the iterator once per remaining row in cursor
\* order, never invokes it for the next row before the promise the iterator
\* returned for the row before has resolved, and resolves only after the
\* last row's iterator has resolved.
C28_SerialForEach ==
  arg.op = "serialForEach" =>
    /\ \/ IsPrefix(res, OneAtATime(arg.from))
       \/ /\ res # <<>> /\ res[Len(res)].e = "reject"
          /\ IsPrefix(SubSeq(res, 1, Len(res) - 1), OneAtATime(arg.from))
    /\ arg.status = "resolved" => res = OneAtATime(arg.from)

C28_Witness ==
  /\ arg.op = "serialForEach" /\ arg.status = "resolved"
  /\ Len(arg.from) = MaxRows
  /\ Len(res) = 2 * MaxRows /\ res[Len(res)] = [e |-> "resolve", row |-> MaxRows]

\* the rows the iterator was called with, and how often
Invocations(r) == Cardinality({j \in DOMAIN res : res[j] = [e |-> "invoke", row |-> r]})
Resolutions(r) == Cardinality({j \in DOMAIN res : res[j] = [e |-> "resolve", row |-> r]})
Remaining == {arg.from[j] : j \in DOMAIN arg.from}
\* calls of the native cursor that have not answered
Pulling == {i \in DOMAIN arg.prom : arg.prom[i].st \in {"hasNext", "next"}}
\* iterator calls that have not settled
InFlight == {r \in 1..MaxRows :
               \E j \in DOMAIN res :
                 /\ res[j] = [e |-> "invoke", row |-> r]
                 /\ \A l \in (j + 1)..Len(res) : res[l].row # r}

\* C29: forEachParallelLimitP passes every remaining row to the iterator
\* exactly once, never has more than maxParallel iterator calls in flight (1
\* when maxParallel is missing or below 1), never has two calls of the native
\* cursor outstanding, and resolves only after the cursor is exhausted and
\* every iterator call has resolved, whatever the order iterators complete in.
C29_ParallelLimit ==
  arg.op = "forEachParallelLimitP" =>
    /\ \A r \in 1..MaxRows : Invocations(r) <= (IF r \in Remaining THEN 1 ELSE 0)
    /\ Cardinality(InFlight) <=
         (IF arg.maxParallel.given /\ arg.maxParallel.n >= 1
            THEN arg.maxParallel.n ELSE 1)
    /\ Cardinality(Pulling) <= 1
    /\ arg.status = "resolved" =>
         /\ arg.rows = <<>>
         /\ \A r \in Remaining : Invocations(r) = 1 /\ Resolutions(r) = 1

\* two rows in flight at once, the later one completing first
C29_Witness ==
  /\ arg.op = "forEachParallelLimitP" /\ arg.status = "resolved"
  /\ arg.maxParallel = Given(MaxParallel) /\ Len(arg.from) = MaxRows
  /\ Len(res) = 2 * MaxRows
  /\ res[1].e = "invoke" /\ res[2].e = "invoke"
  /\ res[3] = [e |-> "resolve", row |-> res[2].row]


\* ---------------------------------------------------------------------
\* the order of the steps of one save() / remove()
\* ---------------------------------------------------------------------

\* hook h of call c runs in this step / has run
HookRuns(h, c) ==
  /\ Len(hookLog') = Len(hookLog) + 1
  /\ hookLog'[Len(hookLog')] = Logged(h, c)
HasRun(h, c) == \E j \in DOMAIN hookLog : hookLog[j] = Logged(h, c)
\* validation of save call c has returned the object to write
Validated(c) == calls[c].obj # NoDoc

StepOrder(c) ==
  LET r == calls[c]
      before == IF r.op = "save" THEN "beforeSave" ELSE "beforeRemove"
      after == IF r.op = "save" THEN "afterSave" ELSE "afterRemove"
      hooked == before \in Methods(r.def)
      validates == r.op = "save" /\ r.pc = "validate" /\ calls'[c].pc # "validate"
      writes == r.pc = "write" /\ calls'[c].pc # "write"
  IN r.op \in {"save", "remove"} =>
       /\ HookRuns(before, c) =>
            /\ ~HasRun(before, c) /\ ~Validated(c) /\ ~r.wrote /\ ~HasRun(after, c)
            /\ ~validates /\ ~writes
       /\ validates =>
            /\ hooked => HasRun(before, c)
            /\ ~Validated(c) /\ ~r.wrote /\ ~HasRun(after, c)
            /\ View(r.sess)' = View(r.sess) /\ hookLog' = hookLog
       /\ writes =>
            /\ hooked => HasRun(before, c)
            /\ r.op = "save" => Validated(c)
            /\ ~r.wrote /\ ~HasRun(after, c)
            /\ ~HookRuns(after, c)
            \* the zero-match check: without a match nothing is written and
            \* the call is rejected
            /\ ~calls'[c].wrote =>
                 View(r.sess)' = View(r.sess) /\ calls'[c].status = "rejected"
       /\ (~r.wrote /\ calls'[c].wrote) => writes
       /\ HookRuns(after, c) =>
            /\ r.wrote /\ ~HasRun(after, c)
            /\ hooked => HasRun(before, c)
            /\ r.op = "save" => Validated(c)

\* a hook of a call has run only once the steps before it were done, and a
\* call that was rejected before its write completed runs no after hook
OrderKept(c) ==
  LET r == calls[c]
      before == IF r.op = "save" THEN "beforeSave" ELSE "beforeRemove"
      after == IF r.op = "save" THEN "afterSave" ELSE "afterRemove"
  IN r.op \in {"save", "remove"} =>
       /\ HasRun(after, c) => r.wrote
       /\ r.wrote => (before \in Methods(r.def) => HasRun(before, c))
       /\ (r.wrote /\ r.op = "save") => Validated(c)
       /\ (HasRun(before, c) /\ HasRun(after, c)) =>
            \A i, j \in DOMAIN hookLog :
              (hookLog[i] = Logged(before, c) /\ hookLog[j] = Logged(after, c)) => i < j

\* C30: within one save() the steps run in the order beforeSave, validation,
\* the insert/replace with its zero-match check, afterSave, each starting
\* only when the one before it has completed; within one remove() the order
\* is beforeRemove, the delete with its zero-match check, afterRemove.
C30_StepsInOrder ==
  /\ [](\A c \in CallIds : OrderKept(c))
  /\ [][\A c \in CallIds : StepOrder(c)]_vars

\* a replace and a remove that ran all their steps
C30_Witness ==
  /\ calls[1].op = "save" /\ calls[1].status = "resolved" /\ calls[1].wrote
  /\ calls[1].ctx0._id # 0
  /\ calls[2].op = "remove" /\ calls[2].status = "resolved" /\ calls[2].wrote
  /\ hookLog = <<Logged("beforeSave", 1), Logged("afterSave", 1),
                 Logged("beforeRemove", 2), Logged("afterRemove", 2)>>


\* ---------------------------------------------------------------------
\* commitTransaction(): errors of the native commit and of the continuations
\* ---------------------------------------------------------------------

\* the hooks only commitTransaction() / abortTransaction() invoke
QueuedHooks == {HookOf(op, kind) : op \in {"save", "remove"}, kind \in {"commit", "abort"}}

\* C31: when the native commitTransaction call throws, commitTransaction()
\* rejects with that error and invokes no afterCommits and no afterAborts
\* continuation.
C31_NativeCommitThrows ==
  (sess.op = "commit" /\ txn = "failed") =>
    /\ sess.status = "rejected" /\ sess.error = Err("Native", 0)
    /\ sess.invoked = <<>>
    /\ \A p \in DOMAIN hookLog : hookLog[p].hook \notin QueuedHooks

C31_Witness ==
  /\ sess.op = "commit" /\ txn = "failed"
  /\ sess.status = "rejected" /\ sess.error = Err("Native", 0)
  /\ Len(afterCommits) >= 2 /\ Len(afterAborts) >= 2

ChainStep(c) ==
  LET r == calls[c]
  IN (r.op \in {"save", "remove"} /\ ~r.sess /\ HookRuns(HookOf(r.op, "commit"), c)) =>
       /\ r.wrote
       /\ HasHook(r, "after") => "after" \in r.ran /\ HasRun(HookOf(r.op, "after"), c)
       /\ ~HookRuns(HookOf(r.op, "after"), c)

ChainKept(c) ==
  LET r == calls[c]
  IN (r.op \in {"save", "remove"} /\ ~r.sess) =>
       \* resolved with the flag set: both hooks have completed
       /\ (EffectiveWait(r) /\ r.status = "resolved" /\ r.wrote /\ ~r.seen) =>
            /\ HasHook(r, "after") => "after" \in r.ran
            /\ HasHook(r, "commit") => "commit" \in r.ran
            /\ r.pc = "done"
       \* the after hook rejected: the chain has ended without the commit hook
       /\ (HasHook(r, "after") /\ r.wrote /\ r.pc = "done" /\ ~r.seen
             /\ "after" \notin r.ran) =>
            ~HasRun(HookOf(r.op, "commit"), c)
       /\ ~HasRun(HookOf(r.op, "abort"), c)

\* C33: without a session the commit hook of a save / remove is invoked only
\* after its after hook has resolved; with an effective wait flag of true the
\* call resolves only after both have completed; when the after hook rejects
\* the commit hook is not invoked; the abort hook is never invoked.
C33_NoSessionChain ==
  /\ [](\A c \in CallIds : ChainKept(c))
  /\ [][\A c \in CallIds : ChainStep(c)]_vars

C33_Witness ==
  \E c \in CallIds :
    /\ calls[c].op = "remove" /\ ~calls[c].sess
    /\ EffectiveWait(calls[c]) /\ calls[c].status = "resolved" /\ ~calls[c].seen
    /\ calls[c].ran = {"after", "commit"}
    /\ \E p, q \in DOMAIN hookLog :
         /\ p < q
         /\ hookLog[p] = Logged("afterRemove", c)
         /\ hookLog[q] = Logged("afterRemoveCommit", c)


\* ---------------------------------------------------------------------
\* the new _etag of a save
\* ---------------------------------------------------------------------

\* the validated objects of two saves: new or stored, with any previous
\* _etag, with or without change tracking
Validateds ==
  {Plain(i, e, v, m, o) :
     i \in 0..MaxIds, e \in 0..MaxEtag, v \in Vals \ {NoStr},
     m \in {<<>>, << <<"str">> >>}, o \in {<<>>, <<1>>}}

\* obj = removeMeta(obj); newEtag = etag(JSON.stringify(obj)); obj._etag = newEtag
Hashed(obj, d) ==
  LET out == Outgoing(obj, d)
  IN [out EXCEPT !._etag = Etag(out)]

InitEtag ==
  /\ ModelIdle
  /\ arg \in [a : Validateds, b : Validateds, def : {"C"}]
  /\ res = <<>>

\* the two saves reach the hash, in either order
CallHash(first) ==
  /\ res = <<>>
  /\ res' = <<[a |-> Hashed(arg.a, arg.def), b |-> Hashed(arg.b, arg.def),
               first |-> first]>>
  /\ UNCHANGED <<modelVars, arg>>

NextEtag == \E first \in {"a", "b"} : CallHash(first)

SpecEtag == InitEtag /\ [][NextEtag]_vars

\* the persisted content of a validated object: everything but _etag and the
\* change tracking
Content(obj) == [_id |-> obj._id, str |-> obj.str]

\* C34 as stated: two saves whose outgoing documents are equal except for
\* the previous _etag produce the same new _etag.
C34_EtagIgnoresPrevious ==
  (res # <<>> /\ Content(arg.a) = Content(arg.b)) =>
    res[1].a._etag = res[1].b._etag

\* C34 as the code has it: the new _etag is a function of the outgoing
\* document as it is when hashed, previous _etag included and change tracking
\* excluded: two saves whose outgoing documents are equal, previous _etag
\* included, produce the same new _etag, and the same content saved over
\* different previous _etags produces different new _etags.
C34_EtagCoversPrevious ==
  res # <<>> =>
    /\ (Content(arg.a) = Content(arg.b) /\ arg.a._etag = arg.b._etag) =>
         res[1].a = res[1].b
    /\ (Content(arg.a) = Content(arg.b) /\ arg.a._etag # arg.b._etag) =>
         res[1].a._etag # res[1].b._etag

C34_Witness ==
  /\ res # <<>>
  /\ Content(arg.a) = Content(arg.b) /\ arg.a._id # 0
  /\ arg.a._etag = 1 /\ arg.b._etag = 2
  /\ arg.a.__modified # arg.b.__modified
  /\ res[1].a._etag # res[1].b._etag


\* ---------------------------------------------------------------------
\* Database: the connection and collection()
\* ---------------------------------------------------------------------

\* database calls in one run
MaxDbCalls == 3
DbCalls == 1..MaxDbCalls

\* a database call (find, insert, ...): where it is, the connection status it
\* found, and what was done on its behalf
NoDbCall ==
  [pc |-> "free", saw |-> "none", attempts |-> 0, lookups |-> 0, queries |-> 0,
   outcome |-> "none"]

\* the singleton: COSA_DB_URI is set; _connectionStatus, _db (set or null) and
\* the listeners registered for 'connect'
Database(status) ==
  [status |-> status, db |-> status = "connected", listeners |-> <<>>,
   call |-> [c \in DbCalls |-> NoDbCall]]

InitDb ==
  /\ ModelIdle
  /\ arg \in {Database(st) : st \in {"disconnected", "connected"}}
  /\ res = <<>>

\* a collection() that starts a connection attempt whenever it is not connected
BranchNoWait(status) == IF status = "connected" THEN "lookup" ELSE "init"

\* collection(): the branch taken for a connection status
Branch(status) ==
  IF status = "connected" THEN "lookup"
  ELSE IF status = "connecting" THEN "wait"
  ELSE "init"

\* this._db.collection(name, options) for call c, followed by the caller's
\* query on the collection
Lookup(r) == [r EXCEPT !.pc = "query", !.lookups = @ + 1, !.queries = @ + 1]

\* a database call reaches collection(): it looks the collection up, registers
\* a listener for 'connect', or calls init(), which sets the status to
\* 'connecting' before its first await
DbCall(c) ==
  /\ arg.call[c].pc = "free"
  /\ LET r == [arg.call[c] EXCEPT !.saw = arg.status]
         b == Branch(arg.status)
     IN arg' =
          IF b = "lookup"
            THEN [arg EXCEPT !.call[c] = Lookup(r)]
          ELSE IF b = "wait"
            THEN [arg EXCEPT !.call[c] = [r EXCEPT !.pc = "wait"],
                             !.listeners = Append(@, c)]
          ELSE [arg EXCEPT !.call[c] = [r EXCEPT !.pc = "init", !.attempts = @ + 1],
                           !.status = "connecting"]
  /\ UNCHANGED <<modelVars, res>>

\* what the 'connect' listeners do for a call: every registered listener looks
\* the collection up, and the first time this resolves the waiting call
Listened(r, n) ==
  IF n = 0 THEN r
  ELSE IF r.pc = "wait" THEN [Lookup(r) EXCEPT !.lookups = r.lookups + n]
  ELSE [r EXCEPT !.lookups = @ + n]

ListenersOf(c) == Cardinality({j \in DOMAIN arg.listeners : arg.listeners[j] = c})

\* the attempt of call c succeeds: init() sets _db and the status 'connected',
\* emits 'connect' and returns; the call goes on to its lookup
ConnectOk(c) ==
  /\ arg.call[c].pc = "init"
  /\ arg' = [arg EXCEPT
       !.status = "connected", !.db = TRUE,
       !.call = [k \in DbCalls |->
                   IF k = c THEN Lookup(Listened(arg.call[k], ListenersOf(k)))
                   ELSE Listened(arg.call[k], ListenersOf(k))]]
  /\ UNCHANGED <<modelVars, res>>

\* the attempt of call c fails: init() clears _db and _client, sets the status
\* 'disconnected' and throws; nothing is emitted
ConnectFails(c) ==
  /\ arg.call[c].pc = "init"
  /\ arg' = [arg EXCEPT
       !.status = "disconnected", !.db = FALSE,
       !.call[c] = [@ EXCEPT !.pc = "done", !.outcome = "rejected"]]
  /\ UNCHANGED <<modelVars, res>>

\* 'connectionPoolClosed'
PoolClosed ==
  /\ arg.status = "connected"
  /\ arg' = [arg EXCEPT !.status = "disconnected", !.db = FALSE]
  /\ UNCHANGED <<modelVars, res>>

\* the query of call c answers or fails
QuerySettles(c, outcome) ==
  /\ arg.call[c].pc = "query"
  /\ arg' = [arg EXCEPT !.call[c] = [@ EXCEPT !.pc = "done", !.outcome = outcome]]
  /\ UNCHANGED <<modelVars, res>>

AttemptSettles == \E c \in DbCalls : ConnectOk(c) \/ ConnectFails(c)

NextDb ==
  \/ \E c \in DbCalls : DbCall(c)
  \/ \E c \in DbCalls : ConnectOk(c)
  \/ \E c \in DbCalls : ConnectFails(c)
  \/ PoolClosed
  \/ \E c \in DbCalls, o \in {"resolved", "rejected"} : QuerySettles(c, o)

SpecDb == InitDb /\ [][NextDb]_vars

\* every connection attempt ends and every query is answered
SpecDbFair ==
  /\ SpecDb
  /\ \A c \in DbCalls :
       /\ WF_vars(ConnectOk(c) \/ ConnectFails(c))
       /\ WF_vars(\E o \in {"resolved", "rejected"} : QuerySettles(c, o))

\* connection attempts that have not ended
Attempting == {c \in DbCalls : arg.call[c].pc = "init"}

\* C35: a database call made while the status is 'disconnected' starts a new
\* connection attempt and then does its collection lookup and its query
\* exactly once, with no retry; a call made while the status is 'connecting'
\* waits for the pending attempt and starts none, so concurrent calls start
\* exactly one attempt.
C35_OneAttempt ==
  /\ Cardinality(Attempting) <= 1
  /\ arg.status = "connecting" <=> Attempting # {}
  /\ \A c \in DbCalls :
       LET r == arg.call[c]
       IN /\ r.saw = "disconnected" =>
               /\ r.attempts = 1
               /\ r.pc = "init" => r.lookups = 0 /\ r.queries = 0
               /\ r.pc = "query" \/ r.outcome = "resolved" =>
                    r.lookups = 1 /\ r.queries = 1
               /\ r.lookups <= 1 /\ r.queries <= 1
          /\ r.saw = "connecting" =>
               /\ r.attempts = 0
               /\ r.pc = "wait" => r.lookups = 0 /\ r.queries = 0
               /\ r.queries <= 1
          /\ r.saw = "connected" => r.attempts = 0 /\ r.queries <= 1

\* three concurrent calls on a connection that was lost: one attempt, and
\* each call does its query once
C35_Witness ==
  /\ arg.call[1].saw = "disconnected" /\ arg.call[1].outcome = "resolved"
  /\ arg.call[2].saw = "connecting" /\ arg.call[2].outcome = "resolved"
  /\ arg.call[3].saw = "connecting" /\ arg.call[3].outcome = "resolved"
  /\ \A c \in DbCalls : arg.call[c].queries = 1
  /\ arg.call[1].attempts = 1 /\ arg.call[2].attempts = 0 /\ arg.call[3].attempts = 0

\* collection() of call c has not settled
InCollection(c) == arg.call[c].pc \in {"init", "wait"}

\* C40: every call of db.collection() eventually resolves or rejects, also one
\* issued while the status is 'connecting', whether the pending attempt
\* succeeds or fails.
C40_CollectionSettles ==
  \A c \in DbCalls : InCollection(c) ~> ~InCollection(c)

\* the attempt failed and no other is pending: the waiting call's promise can
\* only be resolved by a 'connect' that nothing will emit
C40_WaiterLeftPending ==
  /\ arg.status = "disconnected" /\ Attempting = {}
  /\ arg.call[1].outcome = "rejected" /\ arg.call[1].saw = "disconnected"
  /\ arg.call[2].pc = "wait" /\ arg.listeners = <<2>>


\* ---------------------------------------------------------------------
\* the instance a save() returns and the document it stored
\* ---------------------------------------------------------------------

\* the persisted fields of an instance, as its accessors give them and as
\* toObject() gives them, are those of the document
Mirrors(x, doc) ==
  /\ x.def = doc.coll
  /\ x._id = doc._id /\ x._etag = doc._etag /\ x.str = doc.str
  /\ x.data._id = doc._id /\ x.data._etag = doc._etag /\ x.data.str = doc.str

\* the insert / replace of save call c goes through in this step
Saves(c) ==
  /\ calls[c].op = "save" /\ calls[c].pc = "write"
  /\ ~calls[c].wrote /\ calls'[c].wrote

QueuedIn(q, c) == \E p \in DOMAIN q : q[p].call = c

\* save / remove call c under the session has settled after its write went
\* through
WroteAndSettled(c) ==
  /\ calls[c].op \in {"save", "remove"} /\ calls[c].sess
  /\ calls[c].wrote /\ calls[c].pc = "done"

\* C37: under a session, whenever the insert / replace of a save or the delete
\* of a remove succeeded, the commit and abort continuations the model
\* declares are queued on the session, also when the inline afterSave /
\* afterRemove hook throws.
C37_QueuedWheneverWritten ==
  \A c \in CallIds :
    WroteAndSettled(c) =>
      /\ HasHook(calls[c], "commit") => QueuedIn(afterCommits, c)
      /\ HasHook(calls[c], "abort") => QueuedIn(afterAborts, c)

\* a document inserted by a save whose afterSave threw is in the collection
\* after the commit, and its afterSaveCommit was neither queued nor run
C37_DurableWithoutCommitHook ==
  \E c \in CallIds, i \in Ids :
    /\ WroteAndSettled(c) /\ calls[c].op = "save"
    /\ calls[c].status = "rejected" /\ calls[c].err.type = "Hook"
    /\ HasHook(calls[c], "commit")
    /\ sess.op = "commit" /\ sess.status = "resolved" /\ txn = "committed"
    /\ lastWriter[i] = c /\ store[i] # NoDoc
    /\ ~QueuedIn(afterCommits, c) /\ ~QueuedIn(afterAborts, c)
    /\ Count("afterSaveCommit", c) = 0


\* ---------------------------------------------------------------------
\* a single writer
\* ---------------------------------------------------------------------

\* an empty collection, no session
InitSingle ==
  /\ store = [i \in Ids |-> NoDoc]
  /\ txStore = [i \in Ids |-> NoDoc]
  /\ txn = "none"
  /\ afterCommits = <<>>
  /\ afterAborts = <<>>
  /\ sess = IdleSess
  /\ hookLog = <<>>
  /\ inst = [s \in Slots |-> NoInst]
  /\ calls = [c \in CallIds |-> FreeCall]
  /\ nextCall = 1
  /\ nextId = 1
  /\ lastWriter = [i \in Ids |-> 0]
  /\ LibIdle

\* x = await x.save(): the caller goes on with the instance save() resolved
\* to; a rejection leaves x as it was
AwaitAssign(c) ==
  /\ calls[c].op = "save" /\ ~calls[c].seen
  /\ \E keep \in BOOLEAN :
       /\ keep <=> (calls[c].status = "resolved" /\ inst[calls[c].slot] # calls[c].model)
       /\ Await(c, keep)

\* one caller with one variable: create once, then save, (set | del)+, save, ...
NextSingle ==
  \/ \E d \in {"C", "W"}, v \in Vals : inst[1] = NoInst /\ NewInstance(1, d, v)
  \/ \E v \in Vals : SetStr(1, v)
  \/ DelStr(1)
  \/ Save(1, "absent", MaxRetryCalls)
  \/ \E c \in CallIds : AwaitAssign(c)
  \/ Lifecycle

SpecSingle == InitSingle /\ [][NextSingle]_vars

\* the insert / replace of save call c goes through in this step
SaveWrites(c) ==
  /\ calls[c].op = "save" /\ calls[c].pc = "write"
  /\ calls'[c].wrote

\* the step keeps what a single writer relies on: the instance save() hands
\* back carries the _etag of the document as stored, and a new one when the
\* content changed
EtagFollows(c) ==
  LET x == calls'[c].model
  IN /\ x._id \in Ids
     /\ store'[x._id] # NoDoc
     /\ x._etag = store'[x._id]._etag
     /\ (store[x._id] # NoDoc /\ Content(store'[x._id]) # Content(store[x._id]))
          => x._etag # store[x._id]._etag

\* the stored instance the caller holds between two calls is current
HeldIsCurrent ==
  \A s \in Slots :
    (inst[s] # NoInst /\ inst[s]._id # 0 /\ ~TopPending) =>
      /\ store[inst[s]._id] # NoDoc
      /\ inst[s]._etag = store[inst[s]._id]._etag

\* C38: with a single writer that always goes on with the instance the
\* previous save returned, no save fails with Conflict; after every successful
\* save the returned instance's _etag equals the stored document's _etag, and
\* it differs from the previous _etag when the content changed.
C38_SingleWriterNoConflict ==
  /\ [](\A c \in CallIds : calls[c].err.type # "Conflict")
  /\ []HeldIsCurrent
  /\ [][\A c \in CallIds : SaveWrites(c) => EtagFollows(c)]_vars

\* save, set / del, save, set / del, save: the third save replaced the
\* document with changed content and resolved to an instance with the stored,
\* new _etag
C38_Witness ==
  /\ \A c \in 1..2 : calls[c].op = "save" /\ calls[c].wrote /\ calls[c].status = "resolved"
  /\ calls[3].op = "save" /\ calls[3].wrote /\ calls[3].status = "resolved"
  /\ ~calls[3].seen
  /\ calls[3].ctx0._id # 0
  /\ calls[3].ctx0.__original # <<>>
  /\ calls[3].ctx0.__original[1].str # calls[3].model.str
  /\ calls[3].model._etag = store[calls[3].model._id]._etag
  /\ calls[3].model._etag # calls[3].ctx0._etag


\* ---------------------------------------------------------------------
\* instances of a removed document
\* ---------------------------------------------------------------------

\* remove call a deleted document i
RemovedBy(a, i) ==
  calls[a].op = "remove" /\ calls[a].wrote /\ calls[a].ctx0._id = i

\* save / remove call b was made on an instance of document i after call a
\* and has ended
LaterOn(a, b, i) ==
  /\ a < b
  /\ calls[b].op \in {"save", "remove"}
  /\ calls[b].ctx0._id = i
  /\ calls[b].pc = "done"

\* what a call on an instance of a removed document comes to
DeadOutcome(b) ==
  LET r == calls[b]
  IN /\ ~r.wrote
     /\ r.status = "resolved" =>
          /\ r.op = "save" /\ r.obj = NoDoc
          /\ ~r.seen => ~isModified(r.ctx0) /\ r.model = r.ctx0
     /\ r.status = "rejected" =>
          /\ r.err.type \in {"Conflict", "Hook", "Validation"}
          /\ (~r.seen /\ r.op = "save" /\ r.query # NoDoc) => r.err.type = "Conflict"
          /\ (~r.seen /\ r.op = "remove" /\ ~r.bthrew) => r.err.type = "Conflict"
     /\ (~r.seen /\ r.op = "save" /\ isModified(r.ctx0)) => r.status = "rejected"
     /\ r.op = "remove" => r.status = "rejected"

\* C39: once a document has been removed, no save() on an instance of it (a
\* stale copy, or one derived from it by set / del) re-creates it: the
\* document stays absent, the save of an unmodified instance is a no-op, any
\* other save rejects, with Conflict once it is past beforeSave and
\* validation, and a second remove() rejects with Conflict.
C39_RemovedStaysRemoved ==
  \A a \in CallIds, i \in Ids :
    RemovedBy(a, i) =>
      /\ store[i] = NoDoc
      /\ lastWriter[i] = a
      /\ \A b \in CallIds : LaterOn(a, b, i) => DeadOutcome(b)

\* the document was removed through one variable, the copy in the other was
\* changed and saved: Conflict, and the document is still absent
C39_Witness ==
  /\ RemovedBy(1, 1)
  /\ calls[2].op = "save" /\ calls[2].pc = "done" /\ ~calls[2].seen
  /\ calls[2].ctx0._id = 1 /\ isModified(calls[2].ctx0)
  /\ calls[2].status = "rejected" /\ calls[2].err.type = "Conflict"
  /\ store[1] = NoDoc

====
